---- MODULE Spec2Model ----
(***************************************************************************)
(* A model of libsigchain (src/sigchainlib/sigchain.cc): the per-signal    *)
(* chain records, the kernel's disposition table and thread signal masks   *)
(* as seen through the real sigaction/sigprocmask, the interposed API and  *)
(* the central dispatcher SignalChain::Handler.                            *)
(*                                                                         *)
(* The model is the LP64 build (struct sigaction and struct sigaction64    *)
(* coincide, so GetAction/SetAction take their same-type branch) with the  *)
(* orig_action_ field of the bionic build.  Deliveries modelled are the    *)
(* ones whose si_code is not an MTE tag-check error.  Flag words are sets  *)
(* of flag names; signal sets are sets of signal numbers.                  *)
(***************************************************************************)
EXTENDS Integers, Sequences, FiniteSets, TLC

VARIABLES
  chains,                     \* chains[s]: the SignalChain record of signal s
  kernel,                     \* kernel[s]: the disposition the kernel holds for s
  kernelKind,                 \* which flag bits the running kernel clears on sigaction
  hookLinked,                 \* android_handle_signal != nullptr
  is_signal_hook_debuggable,
  sigmask,                    \* sigmask[t]: the signal mask of thread t
  handling,                   \* handling[t]: signals whose handling-bit is set on t
  stack,                      \* stack[t]: the dispatcher invocations active on t
  fatal,                      \* "none", or what aborted the process
  added,                      \* history: per signal, the special handlers in add order
  done,                       \* history: the dispatcher invocation that returned last
  nops                        \* the number of API calls and dispatcher invocations so far

vars == <<chains, kernel, kernelKind, hookLinked, is_signal_hook_debuggable,
          sigmask, handling, stack, fatal, added, done, nops>>

----------------------------------------------------------------------------
\* Bounds of the model.

\* _NSIG of the model: signals are 1 .. NSIG-1.
NSIG == 3
\* The number of API calls and dispatcher invocations in a behaviour.
MaxOps == 3

Sigs == 1 .. (NSIG - 1)
Threads == {"T1", "T2"}
MainThreads == {"T1"}

----------------------------------------------------------------------------
\* Flags, handlers and actions.

SA_UNSUPPORTED == "SA_UNSUPPORTED"
SA_EXPOSE_TAGBITS == "SA_EXPOSE_TAGBITS"
SA_SIGINFO == "SA_SIGINFO"
SA_NODEFER == "SA_NODEFER"
SA_RESTART == "SA_RESTART"
SA_ONSTACK == "SA_ONSTACK"
SIGCHAIN_ALLOW_NORETURN == "SIGCHAIN_ALLOW_NORETURN"

SIG_DFL == "SIG_DFL"
SIG_IGN == "SIG_IGN"
SIG_ERR == "SIG_ERR"
\* The address of SignalChain::Handler.
HandlerFn == "SignalChain::Handler"
NULL == "nullptr"

\* The flags Register assumes every kernel supports.
BaselineFlags ==
  {"SA_NOCLDSTOP", "SA_NOCLDWAIT", SA_SIGINFO, SA_ONSTACK, SA_RESTART,
   SA_NODEFER, "SA_RESETHAND", "SA_RESTORER"}

\* A zero-initialised struct sigaction: SIG_DFL is the null handler.
ZeroAction == [handler |-> SIG_DFL, flags |-> {}, mask |-> {}]

\* The action Register installs with the kernel.
HandlerAction ==
  [handler |-> HandlerFn,
   flags |-> {SA_RESTART, SA_SIGINFO, SA_ONSTACK, SA_UNSUPPORTED, SA_EXPOSE_TAGBITS},
   mask |-> Sigs]

\* A null struct sigaction pointer, and an *old_action nothing was written to.
NullAction == [handler |-> NULL, flags |-> {}, mask |-> {}]
Unwritten == [handler |-> "unwritten", flags |-> {}, mask |-> {}]

\* A null sigset pointer, and a pointer to the set m.
NullSet == [null |-> TRUE, set |-> {}]
SetPtr(m) == [null |-> FALSE, set |-> m]

\* SigchainAction special_handlers_[2].
NumSlots == 2

\* A zero-initialised SigchainAction slot.
ZeroSlot == [sc_sigaction |-> NULL, sc_mask |-> {}, sc_flags |-> {}]

\* chains[] lives in BSS; the constructor sets claimed_ to false.
ZeroChain ==
  [claimed |-> FALSE,
   kernel_supported_flags |-> {},
   action |-> ZeroAction,
   orig_action |-> ZeroAction,
   special_handlers |-> [i \in 1 .. NumSlots |-> ZeroSlot]]

----------------------------------------------------------------------------
\* The inputs callers pass.

\* The handlers user code passes to signal().
UserHandlers == {"H1"}

\* The struct sigaction values user code passes as new_action.
UserActions ==
  {[handler |-> SIG_DFL, flags |-> {}, mask |-> {}],
   [handler |-> SIG_IGN, flags |-> {}, mask |-> {}],
   [handler |-> "H1",
    flags |-> {SA_SIGINFO, SA_NODEFER, SA_UNSUPPORTED, SA_EXPOSE_TAGBITS},
    mask |-> {NSIG - 1}]}

\* The SigchainAction values the runtime registers.
SigchainActions ==
  {[sc_sigaction |-> "F1", sc_mask |-> {}, sc_flags |-> {}],
   [sc_sigaction |-> "F2", sc_mask |-> {NSIG - 1},
    sc_flags |-> {SIGCHAIN_ALLOW_NORETURN}]}

SpecialFns == {"F1", "F2"}

\* Signal numbers callers pass, the invalid 0 and NSIG included.
SignoArgs == 0 .. NSIG

SIG_BLOCK == "SIG_BLOCK"
SIG_UNBLOCK == "SIG_UNBLOCK"
SIG_SETMASK == "SIG_SETMASK"
Hows == {SIG_BLOCK, SIG_UNBLOCK, SIG_SETMASK}

----------------------------------------------------------------------------
\* The kernel, reached through linked_sigaction and linked_sigprocmask.

KernelKinds == {"old", "new", "new_tagbits"}

\* The flags the kernel keeps of a flag word passed to sigaction: an old
\* kernel stores the word as it is, a newer one clears the bits it does not
\* know (SA_UNSUPPORTED always, SA_EXPOSE_TAGBITS unless it implements it).
KernelFlags(kind, flags) ==
  CASE kind = "old" -> flags
    [] kind = "new" -> flags \ {SA_UNSUPPORTED, SA_EXPOSE_TAGBITS}
    [] OTHER -> flags \ {SA_UNSUPPORTED}

\* What the kernel stores for new_action.
KernelStore(kind, act) == [act EXCEPT !.flags = KernelFlags(kind, act.flags)]

\* linked_sigprocmask(how, set, _) on a thread whose mask is m.
RealSigprocmask(m, how, set) ==
  IF set.null THEN m
  ELSE CASE how = SIG_BLOCK -> m \cup set.set
         [] how = SIG_UNBLOCK -> m \ set.set
         [] OTHER -> set.set

----------------------------------------------------------------------------
\* SignalChain: the operations on one chain record c.

\* IsClaimed that never answers true.
IsClaimedNever(c) == FALSE

\* IsClaimed that answers true for every chain.
IsClaimedAlways(c) == TRUE

IsClaimed(c) == c.claimed

\* Register that records the old disposition and the supported flags but
\* leaves the kernel's disposition as it was.
RegisterWithoutInstall(kind, c, k) ==
  [chain |-> [c EXCEPT !.action = k,
                       !.orig_action = k,
                       !.kernel_supported_flags = BaselineFlags],
   kern |-> k,
   calls |-> 0]

\* Register that installs the dispatcher and passes no old-action pointer,
\* so that action_ and orig_action_ stay as they were.
RegisterWithoutCapture(kind, c, k) ==
  LET installed == KernelStore(kind, HandlerAction)
  IN [chain |-> [c EXCEPT !.kernel_supported_flags = BaselineFlags],
      kern |-> installed,
      calls |-> 2]

\* kernel_supported_flags_ computed without the test of SA_UNSUPPORTED.
KernelSupportedFlagsTrustingTagbits(readback) ==
  BaselineFlags \cup (readback \cap {SA_EXPOSE_TAGBITS})

\* The value Register gives kernel_supported_flags_ when the read-back of
\* the installed dispatcher reports the flags readback.
KernelSupportedFlags(readback) ==
  BaselineFlags \cup
  (IF SA_UNSUPPORTED \notin readback /\ SA_EXPOSE_TAGBITS \in readback
     THEN {SA_EXPOSE_TAGBITS} ELSE {})

\* Register installs the dispatcher with the kernel, whose disposition was k,
\* stores what the kernel held in action_ and orig_action_, reads the
\* installed flags back and computes kernel_supported_flags_.  The result is
\* the new chain record, the new kernel disposition and the number of calls
\* of the real sigaction made.
Register(kind, c, k) ==
  LET installed == KernelStore(kind, HandlerAction)
      readback == installed.flags
      ksf == KernelSupportedFlags(readback)
  IN [chain |-> [c EXCEPT !.action = k,
                          !.orig_action = k,
                          !.kernel_supported_flags = ksf],
      kern |-> installed,
      calls |-> 2]

\* Claim without the test of claimed_.
ClaimAlways(kind, c, k) ==
  LET r == Register(kind, c, k)
  IN [chain |-> [r.chain EXCEPT !.claimed = TRUE], kern |-> r.kern, calls |-> r.calls]

Claim(kind, c, k) ==
  IF ~c.claimed
    THEN LET r == Register(kind, c, k)
         IN [chain |-> [r.chain EXCEPT !.claimed = TRUE], kern |-> r.kern,
             calls |-> r.calls]
    ELSE [chain |-> c, kern |-> k, calls |-> 0]

\* GetAction that reads orig_action_ instead of action_.
GetActionOfOrig(c) == c.orig_action

\* GetAction that copies the handler and the mask and leaves sa_flags zero.
GetActionWithoutFlags(c) == [c.action EXCEPT !.flags = {}]

GetAction(c) == c.action

\* SetAction without the final masking by kernel_supported_flags_.
SetActionUnmasked(c, new_action) == [c EXCEPT !.action = new_action]

SetAction(c, new_action) ==
  [c EXCEPT !.action =
     [new_action EXCEPT !.flags = new_action.flags \cap c.kernel_supported_flags]]

\* The first slot whose sc_sigaction satisfies a test, or 0.
RECURSIVE FirstSlot(_, _, _)
FirstSlot(slots, fn, i) ==
  IF i > Len(slots) THEN 0
  ELSE IF slots[i].sc_sigaction = fn THEN i
  ELSE FirstSlot(slots, fn, i + 1)

\* AddSpecialHandler that reuses the last slot when no slot is free.
AddSpecialHandlerOverwriting(c, sa) ==
  LET i == FirstSlot(c.special_handlers, NULL, 1)
      k == IF i = 0 THEN Len(c.special_handlers) ELSE i
  IN [fatal |-> FALSE, chain |-> [c EXCEPT !.special_handlers[k] = sa]]

\* AddSpecialHandler that fills the last free slot instead of the first.
AddSpecialHandlerFromEnd(c, sa) ==
  LET free == {j \in DOMAIN c.special_handlers : c.special_handlers[j].sc_sigaction = NULL}
      i == IF free = {} THEN 0 ELSE CHOOSE j \in free : \A k \in free : k <= j
  IN IF i = 0 THEN [fatal |-> TRUE, chain |-> c]
     ELSE [fatal |-> FALSE, chain |-> [c EXCEPT !.special_handlers[i] = sa]]

\* AddSpecialHandler: the chain record, and whether fatal() was called
\* because no slot is free.
AddSpecialHandler(c, sa) ==
  LET i == FirstSlot(c.special_handlers, NULL, 1)
  IN IF i = 0 THEN [fatal |-> TRUE, chain |-> c]
     ELSE [fatal |-> FALSE, chain |-> [c EXCEPT !.special_handlers[i] = sa]]

\* RemoveSpecialHandler that clears the slot it finds and moves no entry.
RemoveSpecialHandlerLeavingGap(c, fn) ==
  LET i == FirstSlot(c.special_handlers, fn, 1)
  IN IF i = 0 THEN [fatal |-> TRUE, chain |-> c]
     ELSE [fatal |-> FALSE,
           chain |-> [c EXCEPT !.special_handlers[i].sc_sigaction = NULL]]

\* RemoveSpecialHandler that returns without fatal() when fn is in no slot.
RemoveSpecialHandlerSilent(c, fn) ==
  LET slots == c.special_handlers
      len == Len(slots)
      i == FirstSlot(slots, fn, 1)
      shifted == [j \in 1 .. len |->
                    IF j >= i /\ j < len THEN slots[j + 1] ELSE slots[j]]
  IN IF i = 0 THEN [fatal |-> FALSE, chain |-> c]
     ELSE [fatal |-> FALSE,
           chain |-> [c EXCEPT !.special_handlers =
                        [shifted EXCEPT ![len].sc_sigaction = NULL]]]

\* RemoveSpecialHandler that resets claimed_ when it removes a handler.
RemoveSpecialHandlerUnclaiming(c, fn) ==
  LET slots == c.special_handlers
      len == Len(slots)
      i == FirstSlot(slots, fn, 1)
      shifted == [j \in 1 .. len |->
                    IF j >= i /\ j < len THEN slots[j + 1] ELSE slots[j]]
  IN IF i = 0 THEN [fatal |-> TRUE, chain |-> c]
     ELSE [fatal |-> FALSE,
           chain |-> [c EXCEPT !.claimed = FALSE,
                               !.special_handlers =
                                 [shifted EXCEPT ![len].sc_sigaction = NULL]]]

\* RemoveSpecialHandler: the chain record, and whether fatal() was called
\* because fn is in no slot.
RemoveSpecialHandler(c, fn) ==
  LET slots == c.special_handlers
      len == Len(slots)
      i == FirstSlot(slots, fn, 1)
      shifted == [j \in 1 .. len |->
                    IF j >= i /\ j < len THEN slots[j + 1] ELSE slots[j]]
  IN IF i = 0 THEN [fatal |-> TRUE, chain |-> c]
     ELSE [fatal |-> FALSE,
           chain |-> [c EXCEPT !.special_handlers =
                        [shifted EXCEPT ![len].sc_sigaction = NULL]]]

----------------------------------------------------------------------------
\* The handling-signal flag store of one thread, b being its set of set bits.

\* GetHandlingSignal() that finds no bit set.
GetAnyHandlingSignalNever(b) == FALSE

GetAnyHandlingSignal(b) == b # {}

\* GetHandlingSignal(signo) reading one word shared by all threads.
GetHandlingSignalOfProcess(b, signo) == \E t \in Threads : signo \in handling[t]

GetHandlingSignal(b, signo) == signo \in b

\* SetHandlingSignal that stores nothing.
SetHandlingSignalNoop(b, signo, value) == b

\* SetHandlingSignal that sets the bit whatever the value.
SetHandlingSignalSticky(b, signo, value) == b \cup {signo}

SetHandlingSignal(b, signo, value) == IF value THEN b \cup {signo} ELSE b \ {signo}

----------------------------------------------------------------------------
\* Where a thread is.

Top(t) == stack[t][Len(stack[t])]
AtTopLevel(t) == stack[t] = <<>>
CallbackPcs == {"in_sh", "in_hook", "in_ua"}
InCallback(t) == stack[t] # <<>> /\ Top(t).pc \in CallbackPcs
Alive == fatal = "none"

ValidSigno(signo) == ~(signo <= 0 \/ signo >= NSIG)

----------------------------------------------------------------------------
Init ==
  /\ chains = [s \in Sigs |-> ZeroChain]
  /\ kernel = [s \in Sigs |-> ZeroAction]
  /\ kernelKind \in KernelKinds
  /\ hookLinked \in BOOLEAN
  /\ is_signal_hook_debuggable = FALSE
  /\ sigmask = [t \in Threads |-> {}]
  /\ handling = [t \in Threads |-> {}]
  /\ stack = [t \in Threads |-> <<>>]
  /\ fatal = "none"
  /\ added = [s \in Sigs |-> <<>>]
  /\ done = [via |-> "none", signo |-> 0, kind |-> "none", entryBit |-> FALSE,
             action |-> NullAction, log |-> <<>>]
  /\ nops = 0

\* One more API call or dispatcher invocation of the behaviour.
Counted == nops < MaxOps /\ nops' = nops + 1

\* __sigaction, as sigaction (and sigaction64) call it, in the current state:
\* the chain records and kernel dispositions it leaves, what it returns,
\* what it writes to *old_action and the number of calls of the real
\* sigaction it makes.
SigactionImpl(signo, new_action, wantOld) ==
  IF is_signal_hook_debuggable
    THEN [chains |-> chains, kernel |-> kernel, ret |-> 0, old_action |-> Unwritten,
          calls |-> 0]
  ELSE IF ~ValidSigno(signo)
    THEN [chains |-> chains, kernel |-> kernel, ret |-> -1, old_action |-> Unwritten,
          calls |-> 0]
  ELSE IF IsClaimed(chains[signo])
    THEN LET saved_action == GetAction(chains[signo])
         IN [chains |-> [chains EXCEPT ![signo] =
                           IF new_action # NullAction
                             THEN SetAction(chains[signo], new_action)
                             ELSE chains[signo]],
             kernel |-> kernel,
             ret |-> 0,
             old_action |-> IF wantOld THEN saved_action ELSE Unwritten,
             calls |-> 0]
  ELSE [chains |-> chains,
        kernel |-> [kernel EXCEPT ![signo] =
                      IF new_action # NullAction
                        THEN KernelStore(kernelKind, new_action)
                        ELSE kernel[signo]],
        ret |-> 0,
        old_action |-> IF wantOld THEN kernel[signo] ELSE Unwritten,
        calls |-> 1]

Sigaction(t, signo, new_action) ==
  LET r == SigactionImpl(signo, new_action, TRUE)
  IN
  /\ Alive /\ AtTopLevel(t) /\ Counted
  /\ chains' = r.chains
  /\ kernel' = r.kernel
  /\ UNCHANGED <<kernelKind, hookLinked, is_signal_hook_debuggable, sigmask,
                 handling, stack, fatal, added, done>>

\* signal(signo, handler) in the current state.
SignalImpl(signo, handler) ==
  LET sa == [handler |-> handler, flags |-> {SA_RESTART, SA_ONSTACK}, mask |-> {}]
  IN IF ~ValidSigno(signo)
       THEN [chains |-> chains, kernel |-> kernel, ret |-> SIG_ERR, calls |-> 0]
     ELSE IF IsClaimed(chains[signo])
       THEN [chains |-> [chains EXCEPT ![signo] = SetAction(chains[signo], sa)],
             kernel |-> kernel,
             ret |-> GetAction(chains[signo]).handler,
             calls |-> 0]
     ELSE [chains |-> chains,
           kernel |-> [kernel EXCEPT ![signo] = KernelStore(kernelKind, sa)],
           ret |-> kernel[signo].handler,
           calls |-> 1]

Signal(t, signo, handler) ==
  LET r == SignalImpl(signo, handler)
  IN
  /\ Alive /\ AtTopLevel(t) /\ Counted
  /\ chains' = r.chains
  /\ kernel' = r.kernel
  /\ UNCHANGED <<kernelKind, hookLinked, is_signal_hook_debuggable, sigmask,
                 handling, stack, fatal, added, done>>

\* __sigprocmask's copy of *new_set without the removal of claimed signals.
FilteredSetUnfiltered(cs, how, new_set) == new_set

\* The removal of claimed signals for SIG_BLOCK only.
FilteredSetBlockOnly(cs, how, new_set) ==
  IF new_set.null THEN NullSet
  ELSE IF how = SIG_BLOCK
    THEN SetPtr({i \in new_set.set : ~cs[i].claimed})
    ELSE SetPtr(new_set.set)

\* The set __sigprocmask hands to the real sigprocmask when no handling-bit
\* is set: a copy of *new_set, without the claimed signals when how is
\* SIG_BLOCK or SIG_SETMASK.
FilteredSet(cs, how, new_set) ==
  IF new_set.null THEN NullSet
  ELSE IF how = SIG_BLOCK \/ how = SIG_SETMASK
    THEN SetPtr({i \in new_set.set : ~IsClaimed(cs[i])})
    ELSE SetPtr(new_set.set)

\* __sigprocmask, as sigprocmask (and sigprocmask64) call it, on thread t in
\* the current state: whether it forwards directly, the set it passes to the
\* real sigprocmask, the caller's *new_set after the call, what the real
\* sigprocmask writes to *old_set, and the thread's mask afterwards.
SigprocmaskImpl(t, how, new_set) ==
  LET bypass == GetAnyHandlingSignal(handling[t])
      passed == IF bypass THEN new_set ELSE FilteredSet(chains, how, new_set)
  IN [bypass |-> bypass,
      passed |-> passed,
      caller_set |-> new_set,
      old_set |-> sigmask[t],
      mask |-> RealSigprocmask(sigmask[t], how, passed),
      ret |-> 0]

\* User code may call sigprocmask at top level and from inside any callback
\* of the dispatcher.
Sigprocmask(t, how, new_set) ==
  /\ Alive /\ (AtTopLevel(t) \/ InCallback(t)) /\ Counted
  /\ sigmask' = [sigmask EXCEPT ![t] = SigprocmaskImpl(t, how, new_set).mask]
  /\ UNCHANGED <<chains, kernel, kernelKind, hookLinked, is_signal_hook_debuggable,
                 handling, stack, fatal, added, done>>

\* The add-order history without its first entry for fn.
RECURSIVE WithoutFirst(_, _)
WithoutFirst(seq, fn) ==
  IF seq = <<>> THEN <<>>
  ELSE IF Head(seq).sc_sigaction = fn THEN Tail(seq)
  ELSE <<Head(seq)>> \o WithoutFirst(Tail(seq), fn)

AddSpecialSignalHandlerFn(t, signo, sa) ==
  /\ Alive /\ AtTopLevel(t) /\ Counted
  /\ UNCHANGED <<kernelKind, hookLinked, is_signal_hook_debuggable, sigmask,
                 handling, stack, done>>
  /\ IF ~ValidSigno(signo)
       THEN /\ fatal' = "Invalid signal"
            /\ UNCHANGED <<chains, kernel, added>>
     ELSE LET r == AddSpecialHandler(chains[signo], sa)
              cl == Claim(kernelKind, r.chain, kernel[signo])
          IN IF r.fatal
               THEN /\ fatal' = "too many special signal handlers"
                    /\ UNCHANGED <<chains, kernel, added>>
               ELSE /\ chains' = [chains EXCEPT ![signo] = cl.chain]
                    /\ kernel' = [kernel EXCEPT ![signo] = cl.kern]
                    /\ added' = [added EXCEPT ![signo] = Append(@, sa)]
                    /\ UNCHANGED fatal

RemoveSpecialSignalHandlerFn(t, signo, fn) ==
  /\ Alive /\ AtTopLevel(t) /\ Counted
  /\ UNCHANGED <<kernel, kernelKind, hookLinked, is_signal_hook_debuggable,
                 sigmask, handling, stack, done>>
  /\ IF ~ValidSigno(signo)
       THEN /\ fatal' = "Invalid signal"
            /\ UNCHANGED <<chains, added>>
     ELSE LET r == RemoveSpecialHandler(chains[signo], fn)
          IN IF r.fatal
               THEN /\ fatal' = "failed to find special handler to remove"
                    /\ UNCHANGED <<chains, added>>
               ELSE /\ chains' = [chains EXCEPT ![signo] = r.chain]
                    /\ added' = [added EXCEPT ![signo] = WithoutFirst(@, fn)]
                    /\ UNCHANGED fatal

\* EnsureFrontOfChain for a valid signo in the current state: the chain
\* records and kernel dispositions it leaves and the number of calls of the
\* real sigaction it makes, the first of them the read of current_action.
\* EnsureFrontOfChain that claims the signal when it re-registers.
EnsureFrontOfChainImplClaiming(signo) ==
  LET current_action == kernel[signo]
      r == ClaimAlways(kernelKind, chains[signo], kernel[signo])
  IN IF current_action.handler # HandlerFn
       THEN [chains |-> [chains EXCEPT ![signo] = r.chain],
             kernel |-> [kernel EXCEPT ![signo] = r.kern],
             calls |-> 1 + r.calls]
       ELSE [chains |-> chains, kernel |-> kernel, calls |-> 1]

EnsureFrontOfChainImpl(signo) ==
  LET current_action == kernel[signo]
      r == Register(kernelKind, chains[signo], kernel[signo])
  IN IF current_action.handler # HandlerFn
       THEN [chains |-> [chains EXCEPT ![signo] = r.chain],
             kernel |-> [kernel EXCEPT ![signo] = r.kern],
             calls |-> 1 + r.calls]
       ELSE [chains |-> chains, kernel |-> kernel, calls |-> 1]

EnsureFrontOfChain(t, signo) ==
  /\ Alive /\ AtTopLevel(t) /\ Counted
  /\ UNCHANGED <<kernelKind, hookLinked, is_signal_hook_debuggable, sigmask,
                 handling, stack, added, done>>
  /\ IF ~ValidSigno(signo)
       THEN /\ fatal' = "Invalid signal"
            /\ UNCHANGED <<chains, kernel>>
     ELSE LET r == EnsureFrontOfChainImpl(signo)
          IN /\ UNCHANGED fatal
             /\ chains' = r.chains
             /\ kernel' = r.kernel

\* SkipAddSignalHandler that never clears the toggle once it is set.
SkipAddSignalHandlerSticky(t, value) ==
  /\ Alive /\ AtTopLevel(t) /\ Counted
  /\ is_signal_hook_debuggable' = (is_signal_hook_debuggable \/ value)
  /\ UNCHANGED <<chains, kernel, kernelKind, hookLinked, sigmask, handling,
                 stack, fatal, added, done>>

SkipAddSignalHandler(t, value) ==
  /\ Alive /\ AtTopLevel(t) /\ Counted
  /\ is_signal_hook_debuggable' = value
  /\ UNCHANGED <<chains, kernel, kernelKind, hookLinked, sigmask, handling,
                 stack, fatal, added, done>>

----------------------------------------------------------------------------
\* SignalChain::Handler.  A frame is one invocation of it; pc is where the
\* invocation stands, log the callbacks it has invoked so far (history).

\* Handler entries that do not test the handling-bit: one always skips the
\* special handlers, the other always runs them.
EntryPcSkipsSpecial(b, signo) == "hook"
EntryPcRunsSpecial(b, signo) == "sh_loop"

\* An entry test that also skips the special handlers while a user action
\* for signo is executing on some thread.
EntryPcSkipsInUserAction(b, signo) ==
  IF ~GetHandlingSignal(b, signo)
     /\ \A t \in Threads : \A k \in DOMAIN stack[t] :
          ~(stack[t][k].pc = "in_ua" /\ stack[t][k].signo = signo)
    THEN "sh_loop" ELSE "hook"

\* The entry test of Handler on a thread whose set bits are b.
EntryPc(b, signo) == IF ~GetHandlingSignal(b, signo) THEN "sh_loop" ELSE "hook"

NewFrame(b, signo, kind, uc) ==
  [signo |-> signo,
   kind |-> kind,                  \* "signal": invoked by the kernel; "call": called as a function
   pc |-> EntryPc(b, signo),
   i |-> 1,                        \* the slot the loop over special_handlers_ is at
   noreturn |-> FALSE,             \* handler_noreturn
   previous_mask |-> {},
   original_value |-> FALSE,       \* ScopedHandlingSignal::original_value_
   uc_sigmask |-> uc,              \* ucontext->uc_sigmask
   entryBit |-> GetHandlingSignal(b, signo),
   log |-> <<>>]

SetTop(t, f) == [stack EXCEPT ![t] = [@ EXCEPT ![Len(@)] = f]]
Push(t, f) == [stack EXCEPT ![t] = Append(@, f)]
Pop(t) == [stack EXCEPT ![t] = SubSeq(@, 1, Len(@) - 1)]

Invoked(f, cb, fn) == [f EXCEPT !.log = Append(@, [cb |-> cb, fn |-> fn, ret |-> "running"])]
Returned(f, ret) == [f EXCEPT !.log[Len(f.log)].ret = ret]

\* The user action's mask with signo added whatever the action's flags.
UserActionMaskIgnoringNodefer(uc, action, signo) == (uc \cup action.mask) \cup {signo}

\* The mask the user action runs with.
UserActionMask(uc, action, signo) ==
  (uc \cup action.mask) \cup (IF SA_NODEFER \notin action.flags THEN {signo} ELSE {})

\* Handler returns: the frame goes, and for an invocation by the kernel
\* sigreturn restores the mask saved in the ucontext.
HandlerReturn(t, f, via, m) ==
  /\ stack' = Pop(t)
  /\ sigmask' = [sigmask EXCEPT ![t] = IF f.kind = "signal" THEN f.uc_sigmask ELSE m]
  /\ done' = [via |-> via, signo |-> f.signo, kind |-> f.kind, entryBit |-> f.entryBit,
              action |-> chains[f.signo].action, log |-> f.log]

\* The kernel delivers signo, whose disposition is the dispatcher, to thread t.
Deliver(t, signo) ==
  /\ Alive
  /\ kernel[signo].handler = HandlerFn
  /\ signo \notin sigmask[t]
  /\ Counted
  /\ stack' = Push(t, NewFrame(handling[t], signo, "signal", sigmask[t]))
  /\ sigmask' = [sigmask EXCEPT ![t] =
                   (@ \cup kernel[signo].mask)
                   \cup (IF SA_NODEFER \notin kernel[signo].flags THEN {signo} ELSE {})]
  /\ UNCHANGED <<chains, kernel, kernelKind, hookLinked, is_signal_hook_debuggable,
                 handling, fatal, added, done>>

\* The head of the loop over special_handlers_: leave it at the end of the
\* array or at a null slot, else install the handler's mask.
HandlerLoop(t) ==
  /\ Alive /\ stack[t] # <<>> /\ Top(t).pc = "sh_loop"
  /\ LET f == Top(t)
         slots == chains[f.signo].special_handlers
     IN IF f.i > NumSlots \/ slots[f.i].sc_sigaction = NULL
          THEN /\ stack' = SetTop(t, [f EXCEPT !.pc = "hook"])
               /\ UNCHANGED sigmask
          ELSE /\ stack' = SetTop(t, [f EXCEPT
                              !.noreturn = SIGCHAIN_ALLOW_NORETURN \in slots[f.i].sc_flags,
                              !.previous_mask = sigmask[t],
                              !.pc = "sh_scoped"])
               /\ sigmask' = [sigmask EXCEPT ![t] = slots[f.i].sc_mask]
  /\ UNCHANGED <<nops, chains, kernel, kernelKind, hookLinked, is_signal_hook_debuggable,
                 handling, fatal, added, done>>

\* The same with ScopedHandlingSignal restorer(signo, true): the bit is set
\* whatever the handler's flags.
HandlerInvokeSpecialAlwaysSetting(t) ==
  /\ Alive /\ stack[t] # <<>> /\ Top(t).pc = "sh_scoped"
  /\ LET f == Top(t)
         slot == chains[f.signo].special_handlers[f.i]
     IN /\ handling' = [handling EXCEPT ![t] = SetHandlingSignal(@, f.signo, TRUE)]
        /\ stack' = SetTop(t, [Invoked(f, "sh", slot.sc_sigaction) EXCEPT
                                 !.original_value = GetHandlingSignal(handling[t], f.signo),
                                 !.pc = "in_sh"])
  /\ UNCHANGED <<nops, chains, kernel, kernelKind, hookLinked, is_signal_hook_debuggable,
                 sigmask, fatal, added, done>>

\* ScopedHandlingSignal restorer(signo, !handler_noreturn), then the call of
\* handler.sc_sigaction.
HandlerInvokeSpecial(t) ==
  /\ Alive /\ stack[t] # <<>> /\ Top(t).pc = "sh_scoped"
  /\ LET f == Top(t)
         slot == chains[f.signo].special_handlers[f.i]
     IN /\ handling' = [handling EXCEPT ![t] =
                          IF ~f.noreturn THEN SetHandlingSignal(@, f.signo, TRUE) ELSE @]
        /\ stack' = SetTop(t, [Invoked(f, "sh", slot.sc_sigaction) EXCEPT
                                 !.original_value = GetHandlingSignal(handling[t], f.signo),
                                 !.pc = "in_sh"])
  /\ UNCHANGED <<nops, chains, kernel, kernelKind, hookLinked, is_signal_hook_debuggable,
                 sigmask, fatal, added, done>>

\* The special handler returns result and the loop goes on without the
\* second linked_sigprocmask call.
SpecialHandlerReturnsWithoutRestore(t, result) ==
  /\ Alive /\ stack[t] # <<>> /\ Top(t).pc = "in_sh"
  /\ LET f == Top(t)
     IN /\ handling' = [handling EXCEPT ![t] =
                          SetHandlingSignal(@, f.signo, f.original_value)]
        /\ IF result
             THEN HandlerReturn(t, Returned(f, "true"), "sh", sigmask[t])
             ELSE /\ UNCHANGED <<sigmask, done>>
                  /\ stack' = SetTop(t, [Returned(f, "false") EXCEPT
                                           !.i = f.i + 1, !.pc = "sh_loop"])
  /\ UNCHANGED <<nops, chains, kernel, kernelKind, hookLinked, is_signal_hook_debuggable,
                 fatal, added>>

\* The special handler returns result; the restorer's destructor runs on
\* both ways out of the loop body.
SpecialHandlerReturns(t, result) ==
  /\ Alive /\ stack[t] # <<>> /\ Top(t).pc = "in_sh"
  /\ LET f == Top(t)
     IN /\ handling' = [handling EXCEPT ![t] =
                          SetHandlingSignal(@, f.signo, f.original_value)]
        /\ IF result
             THEN HandlerReturn(t, Returned(f, "true"), "sh", sigmask[t])
             ELSE /\ sigmask' = [sigmask EXCEPT ![t] = f.previous_mask]
                  /\ UNCHANGED done
                  /\ stack' = SetTop(t, [Returned(f, "false") EXCEPT
                                           !.i = f.i + 1, !.pc = "sh_loop"])
  /\ UNCHANGED <<nops, chains, kernel, kernelKind, hookLinked, is_signal_hook_debuggable,
                 fatal, added>>

\* android_handle_signal != nullptr && android_handle_signal(...).
HandlerHook(t) ==
  /\ Alive /\ stack[t] # <<>> /\ Top(t).pc = "hook"
  /\ LET f == Top(t)
     IN stack' = SetTop(t, IF hookLinked
                             THEN [Invoked(f, "hook", "android_handle_signal") EXCEPT
                                     !.pc = "in_hook"]
                             ELSE [f EXCEPT !.pc = "ua"])
  /\ UNCHANGED <<nops, chains, kernel, kernelKind, hookLinked, is_signal_hook_debuggable,
                 sigmask, handling, fatal, added, done>>

\* The hook returns and the dispatcher goes on to the user action whatever
\* the result.
HookReturnsIgnoringResult(t, result) ==
  /\ Alive /\ stack[t] # <<>> /\ Top(t).pc = "in_hook"
  /\ stack' = SetTop(t, [Returned(Top(t), IF result THEN "true" ELSE "false") EXCEPT
                           !.pc = "ua"])
  /\ UNCHANGED <<sigmask, done>>
  /\ UNCHANGED <<nops, chains, kernel, kernelKind, hookLinked, is_signal_hook_debuggable,
                 handling, fatal, added>>

HookReturns(t, result) ==
  /\ Alive /\ stack[t] # <<>> /\ Top(t).pc = "in_hook"
  /\ LET f == Top(t)
     IN IF result
          THEN HandlerReturn(t, Returned(f, "true"), "hook", sigmask[t])
          ELSE /\ stack' = SetTop(t, [Returned(f, "false") EXCEPT !.pc = "ua"])
               /\ UNCHANGED <<sigmask, done>>
  /\ UNCHANGED <<nops, chains, kernel, kernelKind, hookLinked, is_signal_hook_debuggable,
                 handling, fatal, added>>

\* The user-action phase without its final branch, the call of a
\* one-argument handler.
UserActionKindWithoutCall(action) ==
  IF SA_SIGINFO \in action.flags THEN "sa_sigaction"
  ELSE IF action.handler = SIG_IGN THEN "ignore"
  ELSE "default"

\* The user-action phase that returns for SIG_DFL as it does for SIG_IGN.
UserActionKindReturningOnDefault(action) ==
  IF SA_SIGINFO \in action.flags THEN "sa_sigaction"
  ELSE IF action.handler \in {SIG_IGN, SIG_DFL} THEN "ignore"
  ELSE "sa_handler"

\* What the user-action phase does with the stored action.
UserActionKind(action) ==
  IF SA_SIGINFO \in action.flags THEN "sa_sigaction"
  ELSE IF action.handler = SIG_IGN THEN "ignore"
  ELSE IF action.handler = SIG_DFL THEN "default"
  ELSE "sa_handler"

\* Forward to the user's signal handler: install its mask, then dispatch on
\* the action's style.
HandlerUserAction(t) ==
  /\ Alive /\ stack[t] # <<>> /\ Top(t).pc = "ua"
  /\ LET f == Top(t)
         action == chains[f.signo].action
         mask == UserActionMask(f.uc_sigmask, action, f.signo)
         kind == UserActionKind(action)
         g == [Invoked(f, "ua", action.handler) EXCEPT !.pc = "in_ua"]
     IN CASE kind = "ignore" ->
               /\ HandlerReturn(t, f, "ignore", mask)
               /\ UNCHANGED <<kernel, fatal, nops>>
          [] kind = "default" ->
               /\ kernel' = [kernel EXCEPT ![f.signo] = KernelStore(kernelKind, ZeroAction)]
               /\ HandlerReturn(t, f, "default", mask)
               /\ UNCHANGED <<fatal, nops>>
          [] kind = "sa_sigaction" /\ action.handler \in {SIG_DFL, SIG_IGN} ->
               \* sa_sigaction is the pointer 0 or 1: the call faults with
               \* the signal blocked or handled by a dispatcher that faults.
               /\ fatal' = "call through SIG_DFL or SIG_IGN"
               /\ UNCHANGED <<kernel, stack, sigmask, nops, done>>
          [] action.handler = HandlerFn ->
               \* The stored action is the dispatcher: it calls itself.
               /\ Counted
               /\ stack' = [stack EXCEPT ![t] =
                              Append(SubSeq(@, 1, Len(@) - 1), g)
                              \o <<NewFrame(handling[t], f.signo, "call", f.uc_sigmask)>>]
               /\ sigmask' = [sigmask EXCEPT ![t] = mask]
               /\ UNCHANGED <<kernel, fatal, done>>
          [] OTHER ->
               /\ stack' = SetTop(t, g)
               /\ sigmask' = [sigmask EXCEPT ![t] = mask]
               /\ UNCHANGED <<kernel, fatal, nops, done>>
  /\ UNCHANGED <<chains, kernelKind, hookLinked, is_signal_hook_debuggable,
                 handling, added>>

UserActionReturns(t) ==
  /\ Alive /\ stack[t] # <<>> /\ Top(t).pc = "in_ua"
  /\ HandlerReturn(t, Returned(Top(t), "returned"), "ua", sigmask[t])
  /\ UNCHANGED <<nops, chains, kernel, kernelKind, hookLinked, is_signal_hook_debuggable,
                 handling, fatal, added>>

----------------------------------------------------------------------------
\* User code and the runtime call the API from top level; the kernel delivers
\* signals wherever they are unblocked; the dispatcher runs.

NullableActions == UserActions \cup {NullAction}
SetArgs == {NullSet, SetPtr(Sigs)} \cup {SetPtr({i}) : i \in Sigs}

ThreadNext(t) ==
  \/ \E signo \in SignoArgs, a \in NullableActions : Sigaction(t, signo, a)
  \/ \E signo \in SignoArgs, h \in UserHandlers : Signal(t, signo, h)
  \/ \E how \in Hows, set \in SetArgs : Sigprocmask(t, how, set)
  \/ \E signo \in SignoArgs, sa \in SigchainActions : AddSpecialSignalHandlerFn(t, signo, sa)
  \/ \E signo \in SignoArgs, fn \in SpecialFns : RemoveSpecialSignalHandlerFn(t, signo, fn)
  \/ \E signo \in SignoArgs : EnsureFrontOfChain(t, signo)
  \/ \E value \in BOOLEAN : SkipAddSignalHandler(t, value)
  \/ \E signo \in Sigs : Deliver(t, signo)
  \/ HandlerLoop(t)
  \/ HandlerInvokeSpecial(t)
  \/ \E result \in BOOLEAN : SpecialHandlerReturns(t, result)
  \/ HandlerHook(t)
  \/ \E result \in BOOLEAN : HookReturns(t, result)
  \/ HandlerUserAction(t)
  \/ UserActionReturns(t)

Next == \E t \in MainThreads : ThreadNext(t)

Spec == Init /\ [][Next]_vars

----------------------------------------------------------------------------
\* Properties.

Claimed(s) == chains[s].claimed
KernelHandler(s) == kernel[s].handler
CanCallSigprocmask(t) == Alive /\ (AtTopLevel(t) \/ InCallback(t))
ClaimedSigs == {s \in Sigs : Claimed(s)}
Frames == {<<t, k>> : t \in Threads, k \in 1 .. MaxOps}
IsFrame(tk) == tk[2] <= Len(stack[tk[1]])
Frame(tk) == stack[tk[1]][tk[2]]
CountCb(log, cb) == Cardinality({j \in 1 .. Len(log) : log[j].cb = cb})

\* The dispatch of signal s that finds the stored action SIG_DFL without
\* SA_SIGINFO and returns.
DefaultDispatch(s) ==
  \E t \in Threads :
    /\ stack[t] # <<>>
    /\ Top(t).pc = "ua" /\ Top(t).signo = s
    /\ UserActionKind(chains[s].action) = "default"
    /\ HandlerUserAction(t)

\* C1 as stated: for every claimed signal the handler installed with the
\* kernel is the central dispatcher, in every reachable state.
C1_KernelHandlerIsDispatcher ==
  \A s \in Sigs : Claimed(s) => KernelHandler(s) = HandlerFn

\* C1 amended: a claimed signal's kernel handler ceases to be the central
\* dispatcher only by a dispatch that finds the stored user action SIG_DFL
\* (without SA_SIGINFO), which installs the zeroed SIG_DFL action; a claim
\* and every other operation leave it the dispatcher.
C1_KernelHandlerIsDispatcherUnlessDefaultDispatch ==
  [][\A s \in Sigs :
       (Claimed(s)' /\ KernelHandler(s)' # HandlerFn)
       => \/ Claimed(s) /\ KernelHandler(s) # HandlerFn /\ kernel'[s] = kernel[s]
          \/ Claimed(s) /\ DefaultDispatch(s) /\ kernel'[s] = ZeroAction]_vars

\* C1 witness: a claimed signal was delivered, the dispatcher found the
\* stored action SIG_IGN and returned, and the kernel's handler is still the
\* dispatcher.
C1_Witness ==
  \E s \in Sigs :
    /\ Claimed(s) /\ KernelHandler(s) = HandlerFn
    /\ done.via = "ignore" /\ done.signo = s

\* C2 as stated: for a claimed signal s, sigaction(s, new, old) returns 0,
\* writes to *old (when non-null) the chain record's action as it was before
\* the call, replaces the chain record's action with *new (when non-null) and
\* leaves the kernel's disposition unchanged; with new null the chain record
\* is unchanged.
C2_SigactionReplacesAction ==
  \A s \in ClaimedSigs, a \in NullableActions, w \in BOOLEAN :
    LET r == SigactionImpl(s, a, w)
    IN /\ r.ret = 0
       /\ w => r.old_action = chains[s].action
       /\ r.chains = IF a # NullAction THEN [chains EXCEPT ![s].action = a] ELSE chains
       /\ r.kernel = kernel

\* C2 amended: while is_signal_hook_debuggable is false, for a claimed signal
\* s, sigaction(s, new, old) returns 0, writes to *old (when non-null) the
\* chain record's action as it was before the call, replaces the chain
\* record's action with *new whose sa_flags are restricted to
\* kernel_supported_flags(s) (when new is non-null) and leaves the kernel's
\* disposition unchanged; with new null the chain record is unchanged.
C2_SigactionStoresMaskedAction ==
  \A s \in ClaimedSigs, a \in NullableActions, w \in BOOLEAN :
    ~is_signal_hook_debuggable =>
      LET r == SigactionImpl(s, a, w)
          stored == [a EXCEPT !.flags = a.flags \cap chains[s].kernel_supported_flags]
      IN /\ r.ret = 0
         /\ r.old_action = IF w THEN chains[s].action ELSE Unwritten
         /\ r.chains = IF a # NullAction THEN [chains EXCEPT ![s].action = stored]
                       ELSE chains
         /\ r.kernel = kernel

\* C2 witness: on a claimed signal whose disposition before the claim was
\* SIG_DFL, sigaction has stored a user handler with SA_SIGINFO | SA_NODEFER,
\* its unsupported flag bits removed, and the kernel's handler is the dispatcher.
C2_Witness ==
  \E s \in ClaimedSigs :
    /\ ~is_signal_hook_debuggable
    /\ chains[s].orig_action = ZeroAction
    /\ chains[s].action =
         [handler |-> "H1", flags |-> {SA_SIGINFO, SA_NODEFER}, mask |-> {NSIG - 1}]
    /\ KernelHandler(s) = HandlerFn

\* C3 as stated: after sigaction(s, &new, _) on a claimed signal s, an
\* immediately following sigaction(s, null, &q) writes q with
\* q.sa_flags = new.sa_flags & kernel_supported_flags(s).
C3_FlagsReadBack ==
  [][\A t \in Threads, s \in Sigs, a \in UserActions :
       (Claimed(s) /\ Sigaction(t, s, a))
       => (/\ SigactionImpl(s, NullAction, TRUE).old_action # Unwritten
           /\ SigactionImpl(s, NullAction, TRUE).old_action.flags
                = a.flags \cap chains[s].kernel_supported_flags)']_vars

\* C3 amended: while is_signal_hook_debuggable is false, after
\* sigaction(s, &new, _) on a claimed signal s, an immediately following
\* sigaction(s, null, &q) writes q with
\* q.sa_flags = new.sa_flags & kernel_supported_flags(s).
C3_FlagsReadBackUnlessDebuggable ==
  [][\A t \in Threads, s \in Sigs, a \in UserActions :
       (Claimed(s) /\ ~is_signal_hook_debuggable /\ Sigaction(t, s, a))
       => (/\ SigactionImpl(s, NullAction, TRUE).old_action # Unwritten
           /\ SigactionImpl(s, NullAction, TRUE).old_action.flags
                = a.flags \cap chains[s].kernel_supported_flags)']_vars

\* C3 witness: on a kernel that implements SA_EXPOSE_TAGBITS, a claimed
\* signal reads back SA_SIGINFO | SA_NODEFER | SA_EXPOSE_TAGBITS, the flags
\* passed without SA_UNSUPPORTED.
C3_Witness ==
  \E s \in ClaimedSigs :
    /\ ~is_signal_hook_debuggable
    /\ chains[s].action.handler = "H1"
    /\ SA_UNSUPPORTED \notin chains[s].kernel_supported_flags
    /\ SigactionImpl(s, NullAction, TRUE).old_action.flags
         = {SA_SIGINFO, SA_NODEFER, SA_EXPOSE_TAGBITS}

\* C4: for every claimed signal the flags of the stored user action, which
\* are what sigaction reports in *old, are a subset of
\* kernel_supported_flags, in every reachable state.
C4_StoredFlagsAreSupported ==
  \A s \in ClaimedSigs :
    GetAction(chains[s]).flags \subseteq chains[s].kernel_supported_flags

\* C5 as stated: for every claimed signal s and every prior mask of the
\* calling thread, after sigprocmask(SIG_BLOCK, {s}, _) returns s is not in
\* the thread's signal mask.
C5_BlockLeavesClaimedUnblocked ==
  \A t \in Threads, s \in ClaimedSigs :
    CanCallSigprocmask(t)
    => s \notin SigprocmaskImpl(t, SIG_BLOCK, SetPtr({s})).mask

\* C5 amended: for every claimed signal s, when the calling thread has no
\* handling-bit set and s is not in its signal mask before the call, after
\* sigprocmask(SIG_BLOCK, {s}, _) returns s is not in the thread's signal
\* mask.
C5_BlockLeavesUnblockedClaimedUnblocked ==
  \A t \in Threads, s \in ClaimedSigs :
    (CanCallSigprocmask(t) /\ ~GetAnyHandlingSignal(handling[t]) /\ s \notin sigmask[t])
    => s \notin SigprocmaskImpl(t, SIG_BLOCK, SetPtr({s})).mask

\* C5 witness: a thread at top level with no handling-bit has blocked an
\* unclaimed signal, and a claimed signal with a registered special handler
\* is not in its mask.
C5_Witness ==
  \E t \in MainThreads, s \in ClaimedSigs :
    /\ AtTopLevel(t) /\ ~GetAnyHandlingSignal(handling[t])
    /\ chains[s].special_handlers[1].sc_sigaction # NULL
    /\ s \notin sigmask[t] /\ sigmask[t] # {}
    /\ s \notin SigprocmaskImpl(t, SIG_BLOCK, SetPtr({s})).mask

\* C6: when the calling thread has no handling-bit set and how is SIG_BLOCK
\* or SIG_SETMASK, the set passed to the real sigprocmask is new_set minus
\* the signals claimed at the time of the call, and the caller's new_set is
\* not modified.
C6_PassedSetIsNewSetMinusClaimed ==
  \A t \in Threads, how \in {SIG_BLOCK, SIG_SETMASK}, m \in SUBSET Sigs :
    (CanCallSigprocmask(t) /\ ~GetAnyHandlingSignal(handling[t]))
    => LET r == SigprocmaskImpl(t, how, SetPtr(m))
       IN /\ ~r.bypass
          /\ r.passed = SetPtr(m \ ClaimedSigs)
          /\ r.caller_set = SetPtr(m)

\* C6 witness: some but not all signals are claimed and the mask of a thread
\* at top level with no handling-bit is exactly the unclaimed signals, which
\* is also what a SIG_SETMASK of every signal passes on.
C6_Witness ==
  \E t \in MainThreads :
    /\ AtTopLevel(t) /\ ~GetAnyHandlingSignal(handling[t])
    /\ ClaimedSigs # {} /\ ClaimedSigs # Sigs
    /\ sigmask[t] = Sigs \ ClaimedSigs
    /\ SigprocmaskImpl(t, SIG_SETMASK, SetPtr(Sigs)).passed = SetPtr(sigmask[t])

\* The callbacks a dispatcher invocation for signal s runs through when it
\* is entered with the handling-bit clear and no callback returns true: the
\* special handlers in the order they were added, the hook if it is linked,
\* the stored user action.
ExpectedCallbacks(s) ==
  [j \in 1 .. Len(added[s]) |-> [cb |-> "sh", fn |-> added[s][j].sc_sigaction]]
  \o (IF hookLinked THEN <<[cb |-> "hook", fn |-> "android_handle_signal"]>> ELSE <<>>)
  \o <<[cb |-> "ua", fn |-> chains[s].action.handler]>>

\* log follows expected from its start, and every callback before the last
\* one invoked has returned false.
InOrder(log, expected) ==
  /\ Len(log) <= Len(expected)
  /\ \A j \in 1 .. Len(log) :
       /\ log[j].cb = expected[j].cb
       /\ log[j].fn = expected[j].fn
       /\ j < Len(log) => log[j].ret = "false"

\* C7: a dispatcher invocation entered with the handling-bit for signo clear
\* invokes the registered special handlers in the order they were added, then
\* the hook (if linked), then the stored user action, each only after every
\* earlier callback of the invocation has returned false.
C7_CallbacksInOrder ==
  \A tk \in Frames :
    (IsFrame(tk) /\ ~Frame(tk).entryBit)
    => InOrder(Frame(tk).log, ExpectedCallbacks(Frame(tk).signo))

\* C7 witness: an invocation entered with the bit clear is in the user's
\* handler after a special handler and the hook returned false.
C7_Witness ==
  \E tk \in Frames :
    /\ IsFrame(tk) /\ ~Frame(tk).entryBit /\ Frame(tk).pc = "in_ua"
    /\ Len(Frame(tk).log) = 3
    /\ Frame(tk).log[1].cb = "sh" /\ Frame(tk).log[1].ret = "false"
    /\ Frame(tk).log[2].cb = "hook" /\ Frame(tk).log[2].ret = "false"
    /\ Frame(tk).log[3].cb = "ua" /\ Frame(tk).log[3].fn = "H1"

\* C8: when a special handler returns true the invocation returns having
\* invoked no later special handler, not the hook and not the user action,
\* and the thread's handling-bit for signo is what it was on entry.
C8_SpecialHandlerTrueReturns ==
  [][\A t \in Threads :
       (stack[t] # <<>> /\ SpecialHandlerReturns(t, TRUE))
       => LET f == Top(t)
              n == Len(f.log)
          IN /\ stack'[t] = SubSeq(stack[t], 1, Len(stack[t]) - 1)
             /\ done'.via = "sh" /\ done'.signo = f.signo
             /\ Len(done'.log) = n
             /\ done'.log[n].cb = "sh" /\ done'.log[n].ret = "true"
             /\ \A j \in 1 .. (n - 1) :
                  done'.log[j].cb = "sh" /\ done'.log[j].ret = "false"
             /\ GetHandlingSignal(handling'[t], f.signo) = f.entryBit]_vars

\* C8 witness: with two special handlers registered, the first returned true
\* and the invocation returned to top level with the bit clear as on entry.
C8_Witness ==
  /\ done.via = "sh" /\ ~done.entryBit
  /\ Len(added[done.signo]) = 2 /\ Len(done.log) = 1
  /\ AtTopLevel("T1") /\ done.signo \notin handling["T1"]

\* The stored action's handler is a function of the user.
IsUserFunction(action) == action.handler \notin {SIG_DFL, SIG_IGN}

\* C9 as stated: an invocation in which no special handler and no hook
\* returned true invokes the user action exactly once, whatever the stored
\* user action is.
C9_UserActionInvokedOnce ==
  done.via \in {"ua", "ignore", "default"} => CountCb(done.log, "ua") = 1

\* C9 amended: an invocation in which no special handler and no hook returned
\* true invokes the user action exactly once when the stored handler is a
\* function; when the stored action lacks SA_SIGINFO and its handler is
\* SIG_IGN or SIG_DFL the invocation returns without invoking a user action.
C9_UserFunctionInvokedOnce ==
  /\ done.via \in {"ua", "ignore", "default"} =>
       IF IsUserFunction(done.action)
         THEN done.via = "ua" /\ CountCb(done.log, "ua") = 1
         ELSE SA_SIGINFO \notin done.action.flags => CountCb(done.log, "ua") = 0
  /\ \A tk \in Frames :
       (IsFrame(tk) /\ Frame(tk).pc = "in_ua") => CountCb(Frame(tk).log, "ua") = 1

\* C9 witness: an invocation whose hook returned false has invoked the user's
\* handler once and returned.
C9_Witness ==
  /\ done.via = "ua" /\ done.action.handler = "H1"
  /\ CountCb(done.log, "ua") = 1
  /\ \E j \in 1 .. Len(done.log) : done.log[j].cb = "hook" /\ done.log[j].ret = "false"

\* The invocations on one thread of which the first is inside a special
\* handler for the signal the second, a delivery, is for.
NestedInSpecial ==
  {jk \in (1 .. MaxOps) \X (1 .. MaxOps) :
     \E t \in Threads :
       /\ jk[1] < jk[2] /\ jk[2] <= Len(stack[t])
       /\ stack[t][jk[1]].pc = "in_sh"
       /\ stack[t][jk[2]].kind = "signal"
       /\ stack[t][jk[2]].signo = stack[t][jk[1]].signo}

\* The invocation has invoked no special handler and is not about to.
SkipsSpecial(f) ==
  /\ f.pc \notin {"sh_loop", "sh_scoped", "in_sh"}
  /\ CountCb(f.log, "sh") = 0

\* C10 as stated: an invocation for signo nested in a special handler for
\* signo on the same thread invokes no special handler, whatever the flags
\* of the special handler.
C10_NestedSkipsSpecial ==
  \A t \in Threads, jk \in NestedInSpecial :
    jk[2] <= Len(stack[t]) => SkipsSpecial(stack[t][jk[2]])

\* C10 amended: an invocation for signo nested in a special handler for
\* signo that was registered without SIGCHAIN_ALLOW_NORETURN invokes no
\* special handler and goes on to the hook and the user action.
C10_NestedSkipsSpecialUnlessNoreturn ==
  \A t \in Threads, jk \in NestedInSpecial :
    (jk[2] <= Len(stack[t]) /\ ~stack[t][jk[1]].noreturn)
    => /\ stack[t][jk[2]].entryBit
       /\ SkipsSpecial(stack[t][jk[2]])

\* C10 witness: a delivery nested in a special handler without
\* SIGCHAIN_ALLOW_NORETURN has passed the special-handler phase and invoked
\* the hook.
C10_Witness ==
  \E t \in Threads, jk \in NestedInSpecial :
    /\ jk[2] <= Len(stack[t]) /\ ~stack[t][jk[1]].noreturn
    /\ stack[t][jk[2]].pc = "in_hook"
    /\ CountCb(stack[t][jk[2]].log, "hook") = 1

\* The signals for which a special handler is executing on thread t, and
\* those for which one registered without SIGCHAIN_ALLOW_NORETURN is.
InSpecialHandler(t) ==
  {stack[t][k].signo : k \in {j \in 1 .. Len(stack[t]) : stack[t][j].pc = "in_sh"}}
InReturningSpecialHandler(t) ==
  {stack[t][k].signo :
     k \in {j \in 1 .. Len(stack[t]) :
              stack[t][j].pc = "in_sh" /\ ~stack[t][j].noreturn}}

\* C11 as stated: on every thread the signals whose handling-bit is set are
\* the signals for which a special handler is executing on the thread.
C11_HandlingBitsAreExecutingHandlers ==
  \A t \in Threads : handling[t] = InSpecialHandler(t)

\* C11 amended: on every thread the signals whose handling-bit is set are the
\* signals for which a special handler registered without
\* SIGCHAIN_ALLOW_NORETURN is executing on the thread.
C11_HandlingBitsAreReturningHandlers ==
  \A t \in Threads : handling[t] = InReturningSpecialHandler(t)

\* C11 witness: a special handler without SIGCHAIN_ALLOW_NORETURN is
\* executing and the bit of its signal is the one bit set.
C11_Witness ==
  \E t \in Threads :
    /\ stack[t] # <<>> /\ Top(t).pc = "in_sh" /\ ~Top(t).noreturn
    /\ handling[t] = {Top(t).signo}

\* The calls of the real sigaction that the Claim in
\* AddSpecialSignalHandlerFn(s, sa) makes in the current state.
ClaimCalls(s, sa) ==
  Claim(kernelKind, AddSpecialHandler(chains[s], sa).chain, kernel[s]).calls

\* C12: AddSpecialSignalHandlerFn for an already claimed signal s adds the
\* handler, makes no call of the real sigaction and leaves the kernel's
\* dispositions and claimed, the stored user action, orig_action and
\* kernel_supported_flags of s as they were; the Claim in
\* AddSpecialSignalHandlerFn calls Register only in the step that takes s
\* from unclaimed to claimed, and a claimed s stays claimed, so Register via
\* Claim runs at most once per signal.
C12_ClaimIsIdempotent ==
  [][\A t \in MainThreads, s \in Sigs, sa \in SigchainActions :
       /\ Claimed(s) => Claimed(s)'
       /\ (AddSpecialSignalHandlerFn(t, s, sa) /\ fatal' = "none")
          => /\ ClaimCalls(s, sa) > 0 => (~Claimed(s) /\ Claimed(s)')
             /\ Claimed(s)
                => /\ ClaimCalls(s, sa) = 0
                   /\ kernel' = kernel
                   /\ chains'[s].claimed
                   /\ chains'[s].action = chains[s].action
                   /\ chains'[s].orig_action = chains[s].orig_action
                   /\ chains'[s].kernel_supported_flags = chains[s].kernel_supported_flags
                   /\ \E i \in 1 .. NumSlots :
                        /\ chains[s].special_handlers[i].sc_sigaction = NULL
                        /\ chains'[s].special_handlers =
                             [chains[s].special_handlers EXCEPT ![i] = sa]]_vars

\* C12 witness: a signal whose disposition before the claim was SIG_DFL has
\* two special handlers, the second added when it was already claimed; the
\* stored action and orig_action are still that disposition.
C12_Witness ==
  \E s \in ClaimedSigs :
    /\ Len(added[s]) = 2
    /\ chains[s].special_handlers[2].sc_sigaction # NULL
    /\ chains[s].action = ZeroAction /\ chains[s].orig_action = ZeroAction
    /\ KernelHandler(s) = HandlerFn

\* The calls of the real sigaction that sigaction, signal and the Claim of
\* AddSpecialSignalHandlerFn make for signal s in the current state, over
\* every argument.
NoCallBySigactionSignalAdd(s) ==
  /\ \A a \in NullableActions, w \in BOOLEAN : SigactionImpl(s, a, w).calls = 0
  /\ \A h \in {SIG_DFL, SIG_IGN, "H1"} : SignalImpl(s, h).calls = 0
  /\ \A sa \in SigchainActions : ClaimCalls(s, sa) = 0

\* C13 as stated: once s is claimed no exported API function calls the real
\* sigaction for s.
C13_NoRealSigactionOnceClaimed ==
  \A s \in ClaimedSigs :
    /\ NoCallBySigactionSignalAdd(s)
    /\ EnsureFrontOfChainImpl(s).calls = 0

\* C13 amended: once s is claimed, sigaction, signal and
\* AddSpecialSignalHandlerFn make no call of the real sigaction for s;
\* EnsureFrontOfChain(s) calls it once to read the disposition and, when the
\* handler read is not the dispatcher, twice more in Register.
C13_NoRealSigactionExceptEnsureFrontOfChain ==
  \A s \in ClaimedSigs :
    /\ NoCallBySigactionSignalAdd(s)
    /\ EnsureFrontOfChainImpl(s).calls = IF KernelHandler(s) = HandlerFn THEN 1 ELSE 3

\* C13 witness: on a claimed signal whose disposition before the claim was
\* SIG_DFL, signal() has stored a handler in the chain record and the
\* kernel's disposition is still what Register installed.
C13_Witness ==
  \E s \in ClaimedSigs :
    /\ chains[s].orig_action = ZeroAction
    /\ chains[s].action =
         [handler |-> "H1", flags |-> {SA_RESTART, SA_ONSTACK}, mask |-> {}]
    /\ kernel[s] = KernelStore(kernelKind, HandlerAction)

\* C14: a claimed signal stays claimed in every later state, whatever the
\* step: a removal of its special handlers, a sigaction or signal call,
\* EnsureFrontOfChain, a dispatch that reverts the kernel's disposition to
\* SIG_DFL.
C14_ClaimedStaysClaimed ==
  [][\A s \in Sigs : Claimed(s) => Claimed(s)']_vars

\* C14 witness: a signal is claimed although its special handlers have all
\* been removed and a dispatch has reverted the kernel's disposition to
\* SIG_DFL.
C14_Witness ==
  \E s \in ClaimedSigs :
    /\ added[s] = <<>>
    /\ chains[s].special_handlers[1].sc_sigaction = NULL
    /\ done.via = "default" /\ done.signo = s
    /\ KernelHandler(s) = SIG_DFL

\* The signal numbers outside (0, NSIG) that callers pass.
InvalidSignos == {signo \in SignoArgs : ~ValidSigno(signo)}

\* C15: in every state, sigaction and signal called with signo <= 0 or
\* signo >= NSIG return the invalid-argument error (-1, SIG_ERR) and change
\* no chain record and no kernel disposition.
C15_InvalidSignoIsRejected ==
  \A signo \in InvalidSignos :
    /\ \A a \in NullableActions, w \in BOOLEAN :
         LET r == SigactionImpl(signo, a, w)
         IN r.ret = -1 /\ r.chains = chains /\ r.kernel = kernel
    /\ \A h \in {SIG_DFL, SIG_IGN, "H1"} :
         LET r == SignalImpl(signo, h)
         IN r.ret = SIG_ERR /\ r.chains = chains /\ r.kernel = kernel

\* The special handlers the dispatcher finds registered: the slots up to the
\* first null function pointer, in slot order.
RECURSIVE RegisteredFrom(_, _)
RegisteredFrom(slots, i) ==
  IF i > Len(slots) \/ slots[i].sc_sigaction = NULL THEN <<>>
  ELSE <<slots[i]>> \o RegisteredFrom(slots, i + 1)

RegisteredHandlers(s) == RegisteredFrom(chains[s].special_handlers, 1)

\* C16: AddSpecialSignalHandlerFn on a signal with fewer than 2 handlers
\* registered, by the count of the adds and removes so far, succeeds and
\* appends the handler; with 2 registered it ends in the fatal state and the
\* registered handlers are unchanged.
C16_AddSucceedsIffSlotFree ==
  [][\A t \in MainThreads, s \in Sigs, sa \in SigchainActions :
       AddSpecialSignalHandlerFn(t, s, sa)
       => IF Len(added[s]) < NumSlots
            THEN /\ fatal' = "none"
                 /\ RegisteredHandlers(s)' = Append(RegisteredHandlers(s), sa)
            ELSE /\ fatal' = "too many special signal handlers"
                 /\ RegisteredHandlers(s)' = RegisteredHandlers(s)
                 /\ Len(RegisteredHandlers(s)) = NumSlots]_vars

\* C16 witness: a third add on a signal with two registered handlers has
\* ended in the fatal state, the two handlers still registered.
C16_Witness ==
  /\ fatal = "too many special signal handlers"
  /\ \E s \in Sigs : Len(added[s]) = NumSlots /\ RegisteredHandlers(s) = added[s]

\* The function pointers of a sequence of special handlers.
Fns(seq) == {seq[j].sc_sigaction : j \in 1 .. Len(seq)}

\* Special handlers with the functions of SigchainActions and other flags,
\* so that two entries with one function pointer can be told apart.
OtherSigchainActions ==
  {[sc_sigaction |-> "F1", sc_mask |-> {}, sc_flags |-> {SIGCHAIN_ALLOW_NORETURN}],
   [sc_sigaction |-> "F2", sc_mask |-> {}, sc_flags |-> {}]}

\* The "sh" callbacks of a dispatcher invocation, in the order invoked.
SpecialCalls(log) == SelectSeq(log, LAMBDA e : e.cb = "sh")

C18_RemoveUnregisteredIsFatal ==
  [][\A t \in MainThreads, s \in Sigs, fn \in SpecialFns :
       (RemoveSpecialSignalHandlerFn(t, s, fn) /\ fn \notin Fns(RegisteredHandlers(s)))
       => /\ fatal' = "failed to find special handler to remove"
          /\ chains' = chains
          /\ kernel' = kernel
          /\ added' = added]_vars

\* C18 witness: a removal has ended in the fatal state while one signal has
\* a handler registered and another was never claimed.
C18_Witness ==
  /\ fatal = "failed to find special handler to remove"
  /\ \E s \in ClaimedSigs : Len(RegisteredHandlers(s)) = 1
  /\ \E s \in Sigs : ~Claimed(s) /\ RegisteredHandlers(s) = <<>>

\* What sigaction does with the toggle off, over every argument: an invalid
\* signo gets -1 and nothing changes; a valid one gets 0, *old is written when
\* asked for, and a new action is recorded in the chain record of a claimed
\* signal and passed on to the kernel for an unclaimed one.
SigactionBehavesNormally ==
  \A signo \in SignoArgs, a \in NullableActions, w \in BOOLEAN :
    LET r == SigactionImpl(signo, a, w)
    IN IF ~ValidSigno(signo)
         THEN r.ret = -1 /\ r.chains = chains /\ r.kernel = kernel
       ELSE /\ r.ret = 0
            /\ w <=> r.old_action # Unwritten
            /\ IF a = NullAction THEN r.chains = chains /\ r.kernel = kernel
               ELSE IF Claimed(signo)
                 THEN /\ r.chains[signo].action.handler = a.handler
                      /\ r.kernel = kernel
               ELSE /\ r.kernel[signo].handler = a.handler
                    /\ r.chains = chains

SignalAction(h) == [handler |-> h, flags |-> {SA_RESTART, SA_ONSTACK}, mask |-> {}]

\* C20: in every state, signal(signo, h) leaves the chain records and kernel
\* dispositions that sigaction(signo, &a, &o) with a = SignalAction(h) leaves,
\* and for a valid signo returns the handler sigaction writes to o.
C20_SignalIsSigaction ==
  \A signo \in SignoArgs, h \in {SIG_DFL, SIG_IGN, "H1"} :
    LET r == SignalImpl(signo, h)
        q == SigactionImpl(signo, SignalAction(h), TRUE)
    IN /\ r.chains = q.chains
       /\ r.kernel = q.kernel
       /\ ValidSigno(signo)
          => q.old_action # Unwritten /\ r.ret = q.old_action.handler

\* sigaction(s, new, old), over every new action or null and every old
\* pointer, makes one call of the real sigaction with new and old as passed:
\* the kernel stores new, *old is the disposition the kernel held, the
\* result is the real call's, and no chain record changes.
SigactionForwards(s) ==
  \A a \in NullableActions, w \in BOOLEAN :
    LET r == SigactionImpl(s, a, w)
    IN /\ r.calls = 1
       /\ r.ret = 0
       /\ r.kernel = [kernel EXCEPT ![s] =
                        IF a # NullAction THEN KernelStore(kernelKind, a) ELSE @]
       /\ r.old_action = IF w THEN kernel[s] ELSE Unwritten
       /\ r.chains = chains

\* C21 as stated: for every unclaimed signal with a valid number sigaction
\* forwards to the real sigaction and changes no chain record.
C21_UnclaimedSigactionForwards ==
  \A s \in Sigs \ ClaimedSigs : SigactionForwards(s)

\* C21 amended: the same while the toggle of SkipAddSignalHandler is off.
C21_UnclaimedSigactionForwardsUnlessDebuggable ==
  [](~is_signal_hook_debuggable => \A s \in Sigs \ ClaimedSigs : SigactionForwards(s))

\* C21 witness: with the toggle off, an unclaimed signal whose kernel
\* disposition a forwarded call has set to H1, its chain record still zero,
\* next to a claimed signal.
C21_Witness ==
  /\ ~is_signal_hook_debuggable
  /\ ClaimedSigs # {}
  /\ \E s \in Sigs \ ClaimedSigs :
       KernelHandler(s) = "H1" /\ SA_SIGINFO \in kernel[s].flags /\ chains[s] = ZeroChain

\* What sigaction(s, null, &old) writes to old in the current state.
ReportedAction(s) == SigactionImpl(s, NullAction, TRUE).old_action

\* C22 as stated: AddSpecialSignalHandlerFn(s, sa) on an unclaimed s claims
\* s, installs the dispatcher with a full mask as the kernel's handler, and
\* stores the disposition the kernel held before the call as the chain
\* record's action and orig_action; a sigaction(s, null, &old) after it
\* reports that disposition.
C22_FirstAddCapturesDisposition ==
  [][\A t \in MainThreads, s \in Sigs, sa \in SigchainActions :
       (~Claimed(s) /\ AddSpecialSignalHandlerFn(t, s, sa))
       => /\ fatal' = "none"
          /\ Claimed(s)'
          /\ kernel'[s].handler = HandlerFn
          /\ kernel'[s].mask = Sigs
          /\ chains'[s].action = kernel[s]
          /\ chains'[s].orig_action = kernel[s]
          /\ ReportedAction(s)' = kernel[s]]_vars

\* C22 amended: the same, the sigaction after it reporting that disposition
\* when the toggle of SkipAddSignalHandler is off.
C22_FirstAddCapturesDispositionUnlessDebuggable ==
  [][\A t \in MainThreads, s \in Sigs, sa \in SigchainActions :
       (~Claimed(s) /\ AddSpecialSignalHandlerFn(t, s, sa))
       => /\ fatal' = "none"
          /\ Claimed(s)'
          /\ kernel'[s].handler = HandlerFn
          /\ kernel'[s].mask = Sigs
          /\ chains'[s].action = kernel[s]
          /\ chains'[s].orig_action = kernel[s]
          /\ ~is_signal_hook_debuggable' => ReportedAction(s)' = kernel[s]]_vars

\* C22 witness: a signal whose kernel disposition was H1 with SA_SIGINFO has
\* been claimed by its first special handler; the kernel's handler is the
\* dispatcher with a full mask and the chain record holds the H1 action.
C22_Witness ==
  \E s \in ClaimedSigs :
    /\ Len(added[s]) = 1
    /\ KernelHandler(s) = HandlerFn /\ kernel[s].mask = Sigs
    /\ chains[s].orig_action.handler = "H1"
    /\ SA_SIGINFO \in chains[s].orig_action.flags
    /\ chains[s].action = chains[s].orig_action
    /\ ~is_signal_hook_debuggable
    /\ ReportedAction(s) = chains[s].orig_action

\* C23: EnsureFrontOfChain(s) for a valid s, claimed or not, leaves the
\* kernel handler of s the dispatcher; when it already was, no chain record
\* and no kernel disposition changes; when it was not, the disposition found
\* becomes the stored user action of s, the special handlers and claimed flag
\* of s stay, and no other signal's record or disposition changes.
C23_EnsureFrontOfChainReinstalls ==
  [][\A t \in MainThreads, s \in Sigs :
       EnsureFrontOfChain(t, s)
       => /\ fatal' = "none"
          /\ KernelHandler(s)' = HandlerFn
          /\ IF KernelHandler(s) = HandlerFn
               THEN chains' = chains /\ kernel' = kernel
               ELSE /\ chains'[s].action = kernel[s]
                    /\ chains'[s].special_handlers = chains[s].special_handlers
                    /\ chains'[s].claimed = chains[s].claimed
                    /\ \A o \in Sigs \ {s} :
                         chains'[o] = chains[o] /\ kernel'[o] = kernel[o]]_vars

\* C23 witness: an unclaimed signal whose disposition was H1 has the
\* dispatcher as kernel handler and the H1 action stored, and a claimed
\* signal has kept its special handler.
C23_Witness ==
  /\ \E s \in Sigs :
       /\ ~Claimed(s)
       /\ KernelHandler(s) = HandlerFn
       /\ chains[s].action.handler = "H1"
       /\ RegisteredHandlers(s) = <<>>
  /\ \E s \in ClaimedSigs : Len(RegisteredHandlers(s)) = 1

\* The handler and the flags of an action.
HandlerAndFlags(a) == <<a.handler, a.flags>>

\* Flag words a caller may pass, bits outside kernel_supported_flags among them.
RoundTripFlags == SUBSET {SA_SIGINFO, SA_UNSUPPORTED, SA_EXPOSE_TAGBITS}

\* Installing a in chain record c, reading the action back and installing
\* what was read leaves the handler of a and the flags of a within
\* kernel_supported_flags, as the first installing did.
RoundTrips(c, a) ==
  LET first == SetAction(c, a)
      second == SetAction(first, GetAction(first))
  IN /\ HandlerAndFlags(second.action) = HandlerAndFlags(first.action)
     /\ HandlerAndFlags(first.action) = <<a.handler, a.flags \cap c.kernel_supported_flags>>

\* C24 as stated: after sigaction(s, &A, _) on a claimed signal, reading the
\* action back with sigaction(s, null, &A') and installing A' with
\* sigaction(s, &A', _) leaves the chain record with the handler of A and the
\* flags of A within kernel_supported_flags, as after installing A.
C24_RoundTrip ==
  [][\A t \in MainThreads, s \in Sigs, a \in UserActions :
       (Claimed(s) /\ Sigaction(t, s, a))
       => (LET again == SigactionImpl(s, ReportedAction(s), FALSE).chains[s].action
           IN /\ HandlerAndFlags(again) = HandlerAndFlags(chains[s].action)
              /\ HandlerAndFlags(again)
                   = <<a.handler, a.flags \cap chains[s].kernel_supported_flags>>)']_vars

\* C24 amended: the same while the toggle of SkipAddSignalHandler is off, and
\* for every flag word of RoundTripFlags installed in a claimed chain record.
C24_RoundTripUnlessDebuggable ==
  /\ [][\A t \in MainThreads, s \in Sigs, a \in UserActions :
          (Claimed(s) /\ ~is_signal_hook_debuggable /\ Sigaction(t, s, a))
          => (LET again == SigactionImpl(s, ReportedAction(s), FALSE).chains[s].action
              IN /\ HandlerAndFlags(again) = HandlerAndFlags(chains[s].action)
                 /\ HandlerAndFlags(again)
                      = <<a.handler, a.flags \cap chains[s].kernel_supported_flags>>)']_vars
  /\ [](\A s \in ClaimedSigs, F \in RoundTripFlags :
          RoundTrips(chains[s], [handler |-> "H1", flags |-> F, mask |-> {}]))

\* C24 witness: on a kernel that implements SA_EXPOSE_TAGBITS, with the
\* toggle off, a claimed signal holds the installed H1 action without its
\* SA_UNSUPPORTED bit, and installing what sigaction reports leaves it so.
C24_Witness ==
  \E s \in ClaimedSigs :
    /\ ~is_signal_hook_debuggable
    /\ kernelKind = "new_tagbits"
    /\ HandlerAndFlags(chains[s].action)
         = <<"H1", {SA_SIGINFO, SA_NODEFER, SA_EXPOSE_TAGBITS}>>
    /\ SigactionImpl(s, ReportedAction(s), FALSE).chains = chains

\* C25: while a special handler without SIGCHAIN_ALLOW_NORETURN is invoked,
\* nested invocations included, the handling-bit of its signal is set on the
\* thread; invoking a handler with SIGCHAIN_ALLOW_NORETURN changes no bit;
\* and whenever a dispatcher invocation returns, from whichever phase, the
\* bit of its signal has the value it had when the invocation was entered.
C25_HandlingBitScoped ==
  /\ [](\A tk \in Frames :
          (IsFrame(tk) /\ Frame(tk).pc = "in_sh" /\ ~Frame(tk).noreturn)
          => GetHandlingSignal(handling[tk[1]], Frame(tk).signo))
  /\ [][\A t \in MainThreads :
          (stack[t] # <<>> /\ Top(t).noreturn /\ HandlerInvokeSpecial(t))
          => handling' = handling]_vars
  /\ [][\A t \in MainThreads :
          (stack[t] # <<>> /\ Len(stack'[t]) < Len(stack[t]))
          => GetHandlingSignal(handling'[t], Top(t).signo) = Top(t).entryBit]_vars

\* C25 witness: inside a special handler without SIGCHAIN_ALLOW_NORETURN a
\* nested invocation for the same signal, entered with the bit set, has
\* returned from the user-action phase, and the bit is still set.
C25_Witness ==
  \E t \in Threads :
    /\ Len(stack[t]) = 1
    /\ Top(t).pc = "in_sh" /\ ~Top(t).noreturn
    /\ done.signo = Top(t).signo /\ done.entryBit /\ done.via \in {"default", "ignore", "ua"}
    /\ GetHandlingSignal(handling[t], Top(t).signo)

\* The sets a caller may pass to sigprocmask: null, or any set of signals.
AnySetArgs == {NullSet} \cup {SetPtr(m) : m \in SUBSET Sigs}

\* Thread t is inside a user action, or inside a special handler registered
\* with SIGCHAIN_ALLOW_NORETURN.
InUserActionOrNoreturn(t) ==
  /\ stack[t] # <<>>
  /\ \/ Top(t).pc = "in_ua"
     \/ Top(t).pc = "in_sh" /\ Top(t).noreturn

StoredActions == UserActions \cup {SignalAction(h) : h \in UserHandlers}

\* C27: a step of the user-action phase that invokes the user action, or
\* returns to a caller that is not the kernel, leaves as the thread's mask
\* the ucontext's saved mask united with the action's sa_mask, and signo
\* exactly when the flags lack SA_NODEFER: a signal is in it iff it is in one
\* of the three.  The same holds of the mask computed for any stored action
\* and signal when the saved mask is the thread's current mask.
C27_UserActionMask ==
  /\ [][\A t \in MainThreads :
          (stack[t] # <<>> /\ HandlerUserAction(t)
           /\ (Len(stack'[t]) >= Len(stack[t]) \/ Top(t).kind = "call"))
          => LET f == Top(t)
                 action == chains[f.signo].action
             IN \A i \in Sigs :
                  i \in sigmask'[t]
                  <=> \/ i \in f.uc_sigmask
                      \/ i \in action.mask
                      \/ i = f.signo /\ SA_NODEFER \notin action.flags]_vars
  /\ [](\A t \in MainThreads, a \in StoredActions, signo \in Sigs :
          UserActionMask(sigmask[t], a, signo)
          = {i \in Sigs : \/ i \in sigmask[t]
                          \/ i \in a.mask
                          \/ i = signo /\ SA_NODEFER \notin a.flags})

\* C27 witness: the user's handler, installed with SA_NODEFER and signal
\* NSIG-1 in its sa_mask, runs for signal 1 delivered with an empty mask: the
\* thread's mask is NSIG-1 alone.
C27_Witness ==
  \E t \in MainThreads :
    /\ stack[t] # <<>> /\ Top(t).pc = "in_ua" /\ Top(t).signo = 1
    /\ Top(t).uc_sigmask = {}
    /\ SA_NODEFER \in chains[1].action.flags
    /\ chains[1].action.mask = {NSIG - 1}
    /\ sigmask[t] = {NSIG - 1}

\* The mask the top dispatcher invocation of thread t was entered with: for
\* an invocation by the kernel the interrupted mask with the mask of the
\* installed dispatcher action and the signal added, for the dispatcher
\* called as the stored user action the mask its caller installed.
EntryMask(t) ==
  LET k == Len(stack[t])
      f == stack[t][k]
  IN IF f.kind = "signal"
       THEN (f.uc_sigmask \cup HandlerAction.mask) \cup {f.signo}
       ELSE UserActionMask(stack[t][k - 1].uc_sigmask, chains[f.signo].action, f.signo)

\* The special handler the top invocation of thread t is at.
CurrentSpecialHandler(t) == chains[Top(t).signo].special_handlers[Top(t).i]

\* C28: the dispatcher installs a special handler's sc_mask and saves the
\* mask in force before; the handler is entered with sc_mask, and while it
\* runs the mask changes only by the handler's own sigprocmask calls; when it
\* returns false the mask saved is restored; and at the head of the loop
\* before every special handler, and when the hook is reached, the mask is
\* the one the invocation was entered with.
C28_SpecialHandlerMask ==
  /\ [][\A t \in MainThreads :
          (stack[t] # <<>> /\ HandlerLoop(t) /\ Top(t)'.pc = "sh_scoped")
          => /\ sigmask'[t] = CurrentSpecialHandler(t).sc_mask
             /\ Top(t)'.previous_mask = sigmask[t]]_vars
  /\ [][\A t \in MainThreads :
          (stack[t] # <<>> /\ HandlerInvokeSpecial(t))
          => sigmask'[t] = CurrentSpecialHandler(t).sc_mask]_vars
  /\ [][\A t \in MainThreads :
          (/\ stack[t] # <<>> /\ Top(t).pc = "in_sh"
           /\ Len(stack'[t]) = Len(stack[t]) /\ Top(t)'.pc = "in_sh"
           /\ sigmask'[t] # sigmask[t])
          => \E how \in Hows, set \in SetArgs : Sigprocmask(t, how, set)]_vars
  /\ [][\A t \in MainThreads :
          (stack[t] # <<>> /\ SpecialHandlerReturns(t, FALSE))
          => /\ sigmask'[t] = Top(t).previous_mask
             /\ sigmask'[t] = EntryMask(t)]_vars
  /\ [](\A t \in MainThreads :
          (stack[t] # <<>> /\ Top(t).pc \in {"sh_loop", "hook"})
          => sigmask[t] = EntryMask(t))

\* C28 witness: the second special handler of a signal runs with its own
\* sc_mask after the first, whose sc_mask is empty, returned false.
C28_Witness ==
  \E t \in MainThreads :
    /\ stack[t] # <<>> /\ Top(t).pc = "in_sh" /\ Top(t).i = 2
    /\ Top(t).log[1].ret = "false"
    /\ chains[Top(t).signo].special_handlers[1].sc_mask = {}
    /\ Top(t).previous_mask = Sigs
    /\ sigmask[t] = {NSIG - 1}

\* Thread t's top invocation returns in this step having invoked nothing
\* more: its frame is gone and the log recorded for it is the frame's.
ReturnsInvokingNothing(t) ==
  /\ stack'[t] = SubSeq(stack[t], 1, Len(stack[t]) - 1)
  /\ done'.log = Top(t).log
  /\ done'.signo = Top(t).signo

\* Thread t's top invocation calls the stored handler in this step: the call
\* is the next entry of the frame's log.
CallsHandler(t, handler) ==
  /\ Len(stack'[t]) >= Len(stack[t])
  /\ stack'[t][Len(stack[t])].pc = "in_ua"
  /\ stack'[t][Len(stack[t])].log =
       Append(Top(t).log, [cb |-> "ua", fn |-> handler, ret |-> "running"])

\* C29: in the user-action phase, for a stored action without SA_SIGINFO:
\* SIG_IGN makes the dispatcher return invoking nothing, no kernel
\* disposition changed; SIG_DFL makes it set the kernel disposition of signo
\* to the zeroed SIG_DFL action, no other disposition changed, and return
\* invoking nothing; any other handler is called through sa_handler.  With
\* SA_SIGINFO the handler is called through sa_sigaction.
C29_UserActionDispatch ==
  [][\A t \in MainThreads :
       (stack[t] # <<>> /\ HandlerUserAction(t))
       => LET f == Top(t)
              action == chains[f.signo].action
          IN IF SA_SIGINFO \in action.flags
               THEN /\ UserActionKind(action) = "sa_sigaction"
                    /\ CallsHandler(t, action.handler)
                    /\ kernel' = kernel
             ELSE IF action.handler = SIG_IGN
               THEN ReturnsInvokingNothing(t) /\ kernel' = kernel
             ELSE IF action.handler = SIG_DFL
               THEN /\ ReturnsInvokingNothing(t)
                    /\ kernel'[f.signo].handler = SIG_DFL
                    /\ kernel' = [kernel EXCEPT ![f.signo] = ZeroAction]
             ELSE /\ UserActionKind(action) = "sa_handler"
                  /\ CallsHandler(t, action.handler)
                  /\ kernel' = kernel]_vars

\* C29 witness: a dispatch for a claimed signal found the stored action
\* SIG_DFL, invoked no user action and left the kernel's disposition SIG_DFL.
C29_Witness ==
  /\ done.via = "default"
  /\ done.signo \in ClaimedSigs
  /\ kernel[done.signo] = ZeroAction
  /\ CountCb(done.log, "ua") = 0
  /\ \A t \in Threads : AtTopLevel(t)

\* The places of a dispatcher invocation before and after the call of the hook.
BeforeHookPcs == {"sh_loop", "sh_scoped", "in_sh", "hook"}
AfterHookPcs == {"in_hook", "ua", "in_ua"}

\* C30: with android_handle_signal linked, an invocation past the special
\* handlers, whether it ran them or was entered with the handling-bit set and
\* skipped them, has invoked the hook once, and an invocation a special
\* handler consumed has not invoked it; when the hook returns true the
\* invocation returns with no user action invoked, no kernel disposition
\* changed and the mask left as it was (for an invocation by the kernel,
\* restored from the ucontext).
C30_HookInvokedOnce ==
  /\ [](hookLinked
        => /\ \A tk \in Frames :
                IsFrame(tk)
                => CountCb(Frame(tk).log, "hook")
                     = IF Frame(tk).pc \in AfterHookPcs THEN 1 ELSE 0
           /\ done.via \in {"hook", "ua", "ignore", "default"}
              => CountCb(done.log, "hook") = 1
           /\ done.via = "sh" => CountCb(done.log, "hook") = 0)
  /\ [][\A t \in MainThreads :
          (stack[t] # <<>> /\ HookReturns(t, TRUE))
          => /\ hookLinked
             /\ stack'[t] = SubSeq(stack[t], 1, Len(stack[t]) - 1)
             /\ done'.via = "hook" /\ done'.signo = Top(t).signo
             /\ CountCb(done'.log, "ua") = 0
             /\ kernel' = kernel
             /\ sigmask'[t] = IF Top(t).kind = "signal" THEN Top(t).uc_sigmask
                              ELSE sigmask[t]]_vars

\* C30 witness: an invocation entered with the handling-bit set, inside a
\* special handler, skipped the special handlers, invoked the hook as its
\* only callback and returned when the hook returned true.
C30_Witness ==
  /\ hookLinked
  /\ done.via = "hook" /\ done.entryBit
  /\ Len(done.log) = 1 /\ done.log[1].cb = "hook" /\ done.log[1].ret = "true"
  /\ \E t \in MainThreads : stack[t] # <<>> /\ Top(t).pc = "in_sh"

----------------------------------------------------------------------------
\* The flag words a read-back of the installed dispatcher can report: the
\* kernel keeps or clears each flag Register passed.
ReadBacks == SUBSET HandlerAction.flags

\* Register has run on the chain of s.
Registered(s) == chains[s].kernel_supported_flags # ZeroChain.kernel_supported_flags

\* C31: for every flag word the read-back can report, kernel_supported_flags
\* is the baseline united with SA_EXPOSE_TAGBITS exactly when the read-back
\* lacks SA_UNSUPPORTED and contains SA_EXPOSE_TAGBITS, and it never contains
\* SA_UNSUPPORTED; the chain of every signal Register ran on holds the value
\* for the read-back of the running kernel.
C31_KernelSupportedFlags ==
  [](/\ \A rb \in ReadBacks :
          /\ KernelSupportedFlags(rb) \ {SA_EXPOSE_TAGBITS} = BaselineFlags
          /\ SA_EXPOSE_TAGBITS \in KernelSupportedFlags(rb)
               <=> (SA_UNSUPPORTED \notin rb /\ SA_EXPOSE_TAGBITS \in rb)
          /\ SA_UNSUPPORTED \notin KernelSupportedFlags(rb)
     /\ \A s \in Sigs :
          Registered(s)
          => /\ chains[s].kernel_supported_flags
                  = KernelSupportedFlags(KernelFlags(kernelKind, HandlerAction.flags))
             /\ chains[s].kernel_supported_flags \ {SA_EXPOSE_TAGBITS} = BaselineFlags
             /\ SA_EXPOSE_TAGBITS \in chains[s].kernel_supported_flags
                  <=> kernelKind = "new_tagbits"
             /\ SA_UNSUPPORTED \notin chains[s].kernel_supported_flags)

C31_Witness ==
  \E s \in Sigs :
    /\ Registered(s)
    /\ kernelKind = "old"
    /\ kernel[s].handler = HandlerFn
    /\ SA_UNSUPPORTED \in kernel[s].flags
    /\ SA_EXPOSE_TAGBITS \in kernel[s].flags
    /\ SA_EXPOSE_TAGBITS \notin chains[s].kernel_supported_flags

----------------------------------------------------------------------------
\* Behaviours that start where user code has installed the handler H1 for
\* signal 1 with sigaction and the runtime has then claimed the signal with
\* its first AddSpecialSignalHandlerFn(1, F1).

InstalledAction == CHOOSE u \in UserActions : u.handler \in UserHandlers
FirstSpecial == CHOOSE sa \in SigchainActions : sa.sc_flags = {}

InitClaimed ==
  /\ kernelKind \in KernelKinds
  /\ hookLinked \in BOOLEAN
  /\ LET k == KernelStore(kernelKind, InstalledAction)
         cl == Claim(kernelKind, AddSpecialHandler(ZeroChain, FirstSpecial).chain, k)
     IN /\ chains = [s \in Sigs |-> IF s = 1 THEN cl.chain ELSE ZeroChain]
        /\ kernel = [s \in Sigs |-> IF s = 1 THEN cl.kern ELSE ZeroAction]
        /\ added = [s \in Sigs |-> IF s = 1 THEN <<FirstSpecial>> ELSE <<>>]
  /\ is_signal_hook_debuggable = FALSE
  /\ sigmask = [t \in Threads |-> {}]
  /\ handling = [t \in Threads |-> {}]
  /\ stack = [t \in Threads |-> <<>>]
  /\ fatal = "none"
  /\ done = [via |-> "none", signo |-> 0, kind |-> "none", entryBit |-> FALSE,
             action |-> NullAction, log |-> <<>>]
  /\ nops = 0

SpecClaimed == InitClaimed /\ [][Next]_vars

\* C32: orig_action of a signal is the kernel disposition present just
\* before the step that claims the signal, and no step changes the
\* orig_action of a claimed signal.
C32_OrigActionFixed ==
  [][\A s \in Sigs :
       /\ (~Claimed(s) /\ Claimed(s)') => chains'[s].orig_action = kernel[s]
       /\ Claimed(s) => chains'[s].orig_action = chains[s].orig_action]_vars

----------------------------------------------------------------------------
\* The invocations j below k on thread t, k for the signal whose user action
\* j is executing.
NestedInUserAction(t) ==
  {jk \in (DOMAIN stack[t]) \X (DOMAIN stack[t]) :
     /\ jk[1] < jk[2]
     /\ stack[t][jk[1]].pc = "in_ua"
     /\ stack[t][jk[2]].signo = stack[t][jk[1]].signo}

\* No callback of the log follows a hook or user-action callback as a
\* special handler.
SpecialPhaseFirst(log) ==
  \A i, j \in DOMAIN log : (i < j /\ log[i].cb \in {"hook", "ua"}) => log[j].cb # "sh"

\* C33 as stated: no special handler for signo executes in an invocation
\* entered on a thread while a user action for signo is executing on that
\* thread.
C33_NoSpecialDuringUserAction ==
  \A t \in Threads : \A jk \in NestedInUserAction(t) : stack[t][jk[2]].pc # "in_sh"

\* C33 amended: within one invocation no special handler is invoked after
\* the hook or the user action, and the user action is the last callback;
\* an invocation for signo entered while a user action for signo executes on
\* the thread finds the handling-bit set only if the thread is also inside
\* a special handler for signo registered without SIGCHAIN_ALLOW_NORETURN,
\* and otherwise runs the special handlers first, in order.
C33_PhasesPerInvocation ==
  [](/\ \A tk \in Frames :
          IsFrame(tk)
          => /\ SpecialPhaseFirst(Frame(tk).log)
             /\ \A i \in DOMAIN Frame(tk).log :
                  Frame(tk).log[i].cb = "ua" => i = Len(Frame(tk).log)
             /\ Frame(tk).pc = "in_ua" => Frame(tk).log[Len(Frame(tk).log)].cb = "ua"
     /\ \A t \in Threads : \A jk \in NestedInUserAction(t) :
          LET f == stack[t][jk[2]]
          IN /\ f.entryBit
                  <=> \E i \in 1 .. jk[2] - 1 :
                        /\ stack[t][i].pc = "in_sh" /\ ~stack[t][i].noreturn
                        /\ stack[t][i].signo = f.signo
             /\ ~f.entryBit
                  => /\ InOrder(f.log, ExpectedCallbacks(f.signo))
                     /\ (RegisteredHandlers(f.signo) # <<>> /\ f.pc \notin {"sh_loop", "sh_scoped"})
                          => CountCb(f.log, "sh") >= 1)

\* C33 witness: a special handler for signal 1 is executing in an invocation
\* entered while the user action H1 for signal 1 is executing below it.
C33_Witness ==
  \E t \in Threads : \E jk \in NestedInUserAction(t) :
    /\ stack[t][jk[2]].pc = "in_sh"
    /\ stack[t][jk[2]].kind = "signal"
    /\ ~stack[t][jk[2]].entryBit
    /\ IsUserFunction(chains[stack[t][jk[1]].signo].action)

----------------------------------------------------------------------------
\* Behaviours that start where the runtime has called EnsureFrontOfChain(1)
\* on the unclaimed signal 1, whose kernel disposition was the default, and
\* then AddSpecialSignalHandlerFn(1, F1).

InitFront ==
  /\ kernelKind \in KernelKinds
  /\ hookLinked \in BOOLEAN
  /\ LET front == Register(kernelKind, ZeroChain, ZeroAction)
         cl == Claim(kernelKind, AddSpecialHandler(front.chain, FirstSpecial).chain,
                     front.kern)
     IN /\ chains = [s \in Sigs |-> IF s = 1 THEN cl.chain ELSE ZeroChain]
        /\ kernel = [s \in Sigs |-> IF s = 1 THEN cl.kern ELSE ZeroAction]
        /\ added = [s \in Sigs |-> IF s = 1 THEN <<FirstSpecial>> ELSE <<>>]
  /\ is_signal_hook_debuggable = FALSE
  /\ sigmask = [t \in Threads |-> {}]
  /\ handling = [t \in Threads |-> {}]
  /\ stack = [t \in Threads |-> <<>>]
  /\ fatal = "none"
  /\ done = [via |-> "none", signo |-> 0, kind |-> "none", entryBit |-> FALSE,
             action |-> NullAction, log |-> <<>>]
  /\ nops = 0

SpecFront == InitFront /\ [][Next]_vars

\* The invocations that make up the dispatch the kernel started with
\* invocation k of thread t: k and the invocations above it that the
\* dispatcher entered by calling itself as the user action.
Dispatch(t, k) ==
  {m \in k .. Len(stack[t]) : \A j \in (k + 1) .. m : stack[t][j].kind = "call"}

\* The callbacks cb invoked so far by the invocations ms of thread t.
DispatchCallbacks(t, ms, cb) ==
  {mj \in ms \X (1 .. NumSlots + 2) :
     /\ mj[2] <= Len(stack[t][mj[1]].log)
     /\ stack[t][mj[1]].log[mj[2]].cb = cb}

\* C34: a dispatch of a delivered signal invokes at most 2 special
\* handlers, at most one hook and at most one user action before it
\* returns, whatever the chain records hold.
C34_DispatchBounded ==
  \A t \in Threads : \A k \in DOMAIN stack[t] :
    stack[t][k].kind = "signal"
    => /\ Cardinality(DispatchCallbacks(t, Dispatch(t, k), "sh")) <= NumSlots
       /\ Cardinality(DispatchCallbacks(t, Dispatch(t, k), "hook")) <= 1
       /\ Cardinality(DispatchCallbacks(t, Dispatch(t, k), "ua")) <= 1

\* C36: for every signal the stored user action, the one the dispatcher
\* forwards to, is never the central dispatcher SignalChain::Handler.
C36_StoredActionNeverDispatcher ==
  \A s \in Sigs : chains[s].action.handler # HandlerFn

----------------------------------------------------------------------------
\* The slots of signal s that hold a function pointer.
NonNullSlots(s) ==
  {i \in 1 .. NumSlots : chains[s].special_handlers[i].sc_sigaction # NULL}

\* C40: after every sequence of AddSpecialSignalHandlerFn and
\* RemoveSpecialSignalHandlerFn calls the special-handler array of every
\* signal has no gap (a null slot is followed by null slots only), so the
\* handlers the dispatcher's stop-at-first-null loop visits are all the
\* non-null slots, and they are the handlers added and not removed.
C40_NoGap ==
  [](\A s \in Sigs :
       /\ \A i \in 1 .. NumSlots - 1 :
            chains[s].special_handlers[i].sc_sigaction = NULL
            => chains[s].special_handlers[i + 1].sc_sigaction = NULL
       /\ Len(RegisteredHandlers(s)) = Cardinality(NonNullSlots(s))
       /\ RegisteredHandlers(s) = added[s])

\* C40 witness: after two adds and the removal of the handler in the first
\* slot the other handler is in the first slot and the last slot, which
\* still holds the mask and flags copied from, has a null function pointer.
C40_Witness ==
  \E s \in Sigs :
    /\ NonNullSlots(s) = {1}
    /\ chains[s].special_handlers[NumSlots] # ZeroSlot
    /\ RegisteredHandlers(s) = added[s]
    /\ nops = 3

----------------------------------------------------------------------------
\* Raises of a signal whose kernel disposition is SIG_DFL, as the dispatcher
\* leaves it after a dispatch that found the stored action SIG_DFL: no
\* handler is entered and the kernel takes the signal's default action,
\* which ends the process or, for the signals ignored by default, does
\* nothing.  done records the raise, with the stored action if the signal
\* is claimed.
KernelDefaultOutcomes == {"kernel_terminate", "kernel_ignore"}

KernelDefault(t, signo, outcome) ==
  /\ Alive
  /\ kernel[signo].handler = SIG_DFL
  /\ signo \notin sigmask[t]
  /\ done' = [via |-> outcome, signo |-> signo, kind |-> "signal",
              entryBit |-> GetHandlingSignal(handling[t], signo),
              action |-> IF IsClaimed(chains[signo]) THEN chains[signo].action
                         ELSE NullAction,
              log |-> <<>>]
  /\ fatal' = IF outcome = "kernel_terminate" THEN "terminated by signal" ELSE fatal
  /\ UNCHANGED <<chains, kernel, kernelKind, hookLinked, is_signal_hook_debuggable,
                 sigmask, handling, stack, added, nops>>

RaiseNext ==
  \/ Next
  \/ \E t \in MainThreads, signo \in Sigs, outcome \in KernelDefaultOutcomes :
       KernelDefault(t, signo, outcome)

\* The dispatcher's own steps on thread t, and the return of the callback
\* thread t is in: a thread inside the dispatcher keeps running, and the
\* callbacks are taken to return.
DispatcherStep(t) ==
  HandlerLoop(t) \/ HandlerInvokeSpecial(t) \/ HandlerHook(t) \/ HandlerUserAction(t)

CallbackReturns(t) ==
  \/ \E result \in BOOLEAN : SpecialHandlerReturns(t, result)
  \/ \E result \in BOOLEAN : HookReturns(t, result)
  \/ UserActionReturns(t)

LiveSpec ==
  /\ Init
  /\ [][RaiseNext]_vars
  /\ \A t \in MainThreads : WF_vars(DispatcherStep(t)) /\ WF_vars(CallbackReturns(t))

\* Signal s, claimed and with a handler function of the user stored, has
\* been raised and neither a special handler nor the hook consumed it: the
\* dispatcher has reached its user-action phase for s, or the kernel has
\* taken the default action for s.
RaisedUnconsumed(s) ==
  /\ Claimed(s)
  /\ \/ /\ chains[s].action.handler \in UserHandlers
        /\ \E tk \in Frames :
             IsFrame(tk) /\ Frame(tk).signo = s /\ Frame(tk).pc = "ua"
     \/ /\ done.via \in KernelDefaultOutcomes /\ done.signo = s
        /\ done.action.handler \in UserHandlers

\* The stored handler function of s has been invoked for s.
UserHandlerInvoked(s) ==
  \/ \E tk \in Frames :
       /\ IsFrame(tk) /\ Frame(tk).signo = s /\ Frame(tk).pc = "in_ua"
       /\ Frame(tk).log[Len(Frame(tk).log)].fn \in UserHandlers
  \/ done.via = "ua" /\ done.signo = s

\* C37: whenever a claimed signal s with a user handler H stored by the
\* interposed sigaction or signal is raised and neither a special handler
\* nor the hook consumes it, H is eventually invoked, also after an earlier
\* delivery of s found the stored action SIG_DFL.
C37_InstalledHandlerInvoked ==
  \A s \in Sigs : RaisedUnconsumed(s) ~> UserHandlerInvoked(s)

----------------------------------------------------------------------------
\* Two threads of the process: the kernel delivers signals to either, each
\* runs the dispatcher, and each calls sigprocmask, from the state in which
\* signal 1 is claimed with H1 stored and F1 registered.

ThreadsNext ==
  \E t \in Threads :
    \/ \E signo \in Sigs : Deliver(t, signo)
    \/ \E how \in Hows, set \in SetArgs : Sigprocmask(t, how, set)
    \/ DispatcherStep(t)
    \/ CallbackReturns(t)

SpecThreads == InitClaimed /\ [][ThreadsNext]_vars

\* C35: an invocation of the dispatcher for signo on a thread finds the
\* handling-bit set, and skips the special handlers, only if that same
\* thread is inside a special handler for signo registered without
\* SIGCHAIN_ALLOW_NORETURN, whatever the other thread executes; and
\* sigprocmask on a thread bypasses the claimed-signal filter exactly when
\* that same thread is inside such a special handler.
C35_HandlingBitsPerThread ==
  [](/\ \A tk \in Frames :
          IsFrame(tk)
          => (Frame(tk).entryBit
              <=> \E j \in 1 .. tk[2] - 1 :
                    /\ stack[tk[1]][j].pc = "in_sh" /\ ~stack[tk[1]][j].noreturn
                    /\ stack[tk[1]][j].signo = Frame(tk).signo)
     /\ \A tk \in Frames :
          (IsFrame(tk) /\ ~Frame(tk).entryBit /\ Frame(tk).pc \notin {"sh_loop", "sh_scoped"}
           /\ RegisteredHandlers(Frame(tk).signo) # <<>>)
          => CountCb(Frame(tk).log, "sh") >= 1
     /\ \A t \in Threads, how \in Hows, set \in SetArgs :
          /\ SigprocmaskImpl(t, how, set).bypass <=> InReturningSpecialHandler(t) # {}
          /\ ~SigprocmaskImpl(t, how, set).bypass
               => SigprocmaskImpl(t, how, set).passed = FilteredSet(chains, how, set))

\* C35 witness: while the special handler F1 executes for signal 1 on T1,
\* with T1's handling-bit set, the invocation for signal 1 on T2 was entered
\* with the bit clear, has invoked F1 and is inside the user action, where a
\* sigprocmask of T2 is filtered.
C35_Witness ==
  /\ stack["T1"] # <<>> /\ stack["T1"][1].pc = "in_sh" /\ stack["T1"][1].signo = 1
  /\ 1 \in handling["T1"]
  /\ stack["T2"] # <<>> /\ stack["T2"][1].signo = 1
  /\ ~stack["T2"][1].entryBit /\ stack["T2"][1].pc = "in_ua"
  /\ CountCb(stack["T2"][1].log, "sh") = 1
  /\ ~SigprocmaskImpl("T2", SIG_BLOCK, SetPtr(Sigs)).bypass
  /\ 1 \notin SigprocmaskImpl("T2", SIG_BLOCK, SetPtr(Sigs)).passed.set

----------------------------------------------------------------------------
\* Concurrent callers.  Nothing in AddSpecialSignalHandlerFn,
\* RemoveSpecialSignalHandlerFn or the dispatcher takes a lock, so the steps
\* of two threads interleave between any two accesses of a chain record.
\* A call in progress is a frame on the stack of its thread: pc is the
\* access it is at, i and j are its loop indices, arg its argument, todo the
\* members of the struct assignment under way that are still to be copied
\* (the members of a racing struct copy are written in no fixed order), and
\* log the calls of the real sigaction it has made.

AddSig == 1
RemoveSig == 2
SecondSpecial == CHOOSE sa \in SigchainActions : sa # FirstSpecial
Members == {"sc_sigaction", "sc_mask", "sc_flags"}

ApiFrame(kind, signo, pc, arg) ==
  [signo |-> signo, kind |-> kind, pc |-> pc, i |-> 1, j |-> 0, arg |-> arg,
   todo |-> {}, noreturn |-> FALSE, previous_mask |-> {}, original_value |-> FALSE,
   uc_sigmask |-> {}, entryBit |-> FALSE, log |-> <<>>]

At(t, kind, pc) == Alive /\ stack[t] # <<>> /\ Top(t).kind = kind /\ Top(t).pc = pc

\* Signal 1 is unclaimed with the default disposition; for signal 2 user
\* code has installed H1 and the runtime has registered F1 and F2, in this
\* order, by two sequential calls of AddSpecialSignalHandlerFn.
InitRace ==
  /\ kernelKind \in KernelKinds
  /\ hookLinked \in BOOLEAN
  /\ LET cl == Claim(kernelKind, AddSpecialHandler(ZeroChain, FirstSpecial).chain,
                     KernelStore(kernelKind, InstalledAction))
         both == AddSpecialHandler(cl.chain, SecondSpecial).chain
     IN /\ chains = [s \in Sigs |-> IF s = RemoveSig THEN both ELSE ZeroChain]
        /\ kernel = [s \in Sigs |-> IF s = RemoveSig THEN cl.kern ELSE ZeroAction]
        /\ added = [s \in Sigs |-> IF s = RemoveSig THEN <<FirstSpecial, SecondSpecial>>
                                   ELSE <<>>]
  /\ is_signal_hook_debuggable = FALSE
  /\ sigmask = [t \in Threads |-> {}]
  /\ handling = [t \in Threads |-> {}]
  /\ stack = [t \in Threads |-> <<>>]
  /\ fatal = "none"
  /\ done = [via |-> "none", signo |-> 0, kind |-> "none", entryBit |-> FALSE,
             action |-> NullAction, log |-> <<>>]
  /\ nops = 0

\* What the steps of a call in progress leave alone.
ApiUnchanged ==
  UNCHANGED <<kernelKind, hookLinked, is_signal_hook_debuggable, sigmask, handling,
              added, done, nops>>

\* AddSpecialSignalHandlerFn(signo, sa) is entered with a valid signo.
AddBegin(t, signo, sa) ==
  /\ Alive /\ AtTopLevel(t) /\ Counted
  /\ stack' = Push(t, ApiFrame("add", signo, "add_scan", sa))
  /\ UNCHANGED <<chains, kernel, kernelKind, hookLinked, is_signal_hook_debuggable,
                 sigmask, handling, fatal, added, done>>

\* AddSpecialHandler: the test slot.sc_sigaction == nullptr of the loop.
AddScan(t) ==
  /\ At(t, "add", "add_scan")
  /\ LET f == Top(t)
     IN IF f.i > NumSlots
          THEN /\ fatal' = "too many special signal handlers"
               /\ UNCHANGED stack
          ELSE /\ UNCHANGED fatal
               /\ stack' = SetTop(t,
                    IF chains[f.signo].special_handlers[f.i].sc_sigaction = NULL
                      THEN [f EXCEPT !.pc = "add_copy", !.todo = Members]
                      ELSE [f EXCEPT !.i = f.i + 1])
  /\ UNCHANGED <<chains, kernel>>
  /\ ApiUnchanged

\* AddSpecialHandler: slot = *sa, one member at a time; then return to
\* AddSpecialSignalHandlerFn, which calls Claim.
AddCopy(t) ==
  /\ At(t, "add", "add_copy")
  /\ LET f == Top(t)
     IN \E m \in f.todo :
          /\ chains' = [chains EXCEPT ![f.signo].special_handlers[f.i][m] = f.arg[m]]
          /\ stack' = SetTop(t, [f EXCEPT !.todo = f.todo \ {m},
                                          !.pc = IF f.todo = {m} THEN "claim_test"
                                                 ELSE "add_copy"])
  /\ UNCHANGED <<kernel, fatal>>
  /\ ApiUnchanged

\* Claim: the test of claimed_.
ClaimTest(t) ==
  /\ At(t, "add", "claim_test")
  /\ stack' = SetTop(t, [Top(t) EXCEPT !.pc = IF ~IsClaimed(chains[Top(t).signo])
                                               THEN "register_install"
                                               ELSE "returned"])
  /\ UNCHANGED <<chains, kernel, fatal>>
  /\ ApiUnchanged

\* Register: linked_sigaction(signo, &handler_action, &action_).
RegisterInstall(t) ==
  /\ At(t, "add", "register_install")
  /\ LET f == Top(t)
     IN /\ chains' = [chains EXCEPT ![f.signo].action = kernel[f.signo]]
        /\ kernel' = [kernel EXCEPT ![f.signo] = KernelStore(kernelKind, HandlerAction)]
        /\ stack' = SetTop(t, [Invoked(f, "sigaction", HandlerFn) EXCEPT
                                 !.pc = "register_orig"])
  /\ UNCHANGED fatal
  /\ ApiUnchanged

\* Register: orig_action_ = action_.
RegisterOrig(t) ==
  /\ At(t, "add", "register_orig")
  /\ chains' = [chains EXCEPT ![Top(t).signo].orig_action = chains[Top(t).signo].action]
  /\ stack' = SetTop(t, [Top(t) EXCEPT !.pc = "register_readback"])
  /\ UNCHANGED <<kernel, fatal>>
  /\ ApiUnchanged

\* Register: the read-back of the installed action and the assignment of
\* kernel_supported_flags_.
RegisterReadback(t) ==
  /\ At(t, "add", "register_readback")
  /\ chains' = [chains EXCEPT ![Top(t).signo].kernel_supported_flags =
                  KernelSupportedFlags(kernel[Top(t).signo].flags)]
  /\ stack' = SetTop(t, [Top(t) EXCEPT !.pc = "claim_set"])
  /\ UNCHANGED <<kernel, fatal>>
  /\ ApiUnchanged

\* Claim: claimed_ = true, and AddSpecialSignalHandlerFn returns.
ClaimSet(t) ==
  /\ At(t, "add", "claim_set")
  /\ chains' = [chains EXCEPT ![Top(t).signo].claimed = TRUE]
  /\ stack' = SetTop(t, [Top(t) EXCEPT !.pc = "returned"])
  /\ UNCHANGED <<kernel, fatal>>
  /\ ApiUnchanged

\* RemoveSpecialSignalHandlerFn(signo, fn) is entered with a valid signo.
RemoveBegin(t, signo, fn) ==
  /\ Alive /\ AtTopLevel(t) /\ Counted
  /\ stack' = Push(t, ApiFrame("remove", signo, "rm_scan", fn))
  /\ UNCHANGED <<chains, kernel, kernelKind, hookLinked, is_signal_hook_debuggable,
                 sigmask, handling, fatal, added, done>>

\* RemoveSpecialHandler: the test special_handlers_[i].sc_sigaction == fn of
\* the outer loop.
RemoveScan(t) ==
  /\ At(t, "remove", "rm_scan")
  /\ LET f == Top(t)
     IN IF f.i > NumSlots
          THEN /\ fatal' = "failed to find special handler to remove"
               /\ UNCHANGED stack
          ELSE /\ UNCHANGED fatal
               /\ stack' = SetTop(t,
                    IF chains[f.signo].special_handlers[f.i].sc_sigaction = f.arg
                      THEN [f EXCEPT !.pc = "rm_shift", !.j = f.i]
                      ELSE [f EXCEPT !.i = f.i + 1])
  /\ UNCHANGED <<chains, kernel>>
  /\ ApiUnchanged

\* RemoveSpecialHandler: the head of the inner loop, for (j = i; j < len - 1).
RemoveShift(t) ==
  /\ At(t, "remove", "rm_shift")
  /\ stack' = SetTop(t, IF Top(t).j < NumSlots
                          THEN [Top(t) EXCEPT !.pc = "rm_copy", !.todo = Members]
                          ELSE [Top(t) EXCEPT !.pc = "rm_clear"])
  /\ UNCHANGED <<chains, kernel, fatal>>
  /\ ApiUnchanged

\* RemoveSpecialHandler: special_handlers_[j] = special_handlers_[j + 1], one
\* member at a time.
RemoveCopy(t) ==
  /\ At(t, "remove", "rm_copy")
  /\ LET f == Top(t)
     IN \E m \in f.todo :
          /\ chains' = [chains EXCEPT ![f.signo].special_handlers[f.j][m] =
                          chains[f.signo].special_handlers[f.j + 1][m]]
          /\ stack' = SetTop(t, IF f.todo = {m}
                                  THEN [f EXCEPT !.todo = {}, !.j = f.j + 1,
                                                 !.pc = "rm_shift"]
                                  ELSE [f EXCEPT !.todo = f.todo \ {m}])
  /\ UNCHANGED <<kernel, fatal>>
  /\ ApiUnchanged

\* RemoveSpecialHandler: special_handlers_[len - 1].sc_sigaction = nullptr,
\* and the return.
RemoveClear(t) ==
  /\ At(t, "remove", "rm_clear")
  /\ chains' = [chains EXCEPT ![Top(t).signo].special_handlers[NumSlots].sc_sigaction = NULL]
  /\ stack' = SetTop(t, [Top(t) EXCEPT !.pc = "returned"])
  /\ UNCHANGED <<kernel, fatal>>
  /\ ApiUnchanged

RaceNext ==
  \E t \in Threads :
    \/ \E sa \in SigchainActions : AddBegin(t, AddSig, sa)
    \/ AddScan(t) \/ AddCopy(t) \/ ClaimTest(t)
    \/ RegisterInstall(t) \/ RegisterOrig(t) \/ RegisterReadback(t) \/ ClaimSet(t)
    \/ \E fn \in SpecialFns : RemoveBegin(t, RemoveSig, fn)
    \/ RemoveScan(t) \/ RemoveShift(t) \/ RemoveCopy(t) \/ RemoveClear(t)
    \/ AtTopLevel(t) /\ Deliver(t, RemoveSig)
    \/ DispatcherStep(t)
    \/ CallbackReturns(t)

SpecRace == InitRace /\ [][RaceNext]_vars

\* The call of thread t has returned: kind(signo, arg), made at top level.
Returned1(t, kind, signo) ==
  /\ stack[t] # <<>>
  /\ stack[t][1].kind = kind /\ stack[t][1].signo = signo /\ stack[t][1].pc = "returned"

\* The calls of the real sigaction that install the dispatcher, made by the
\* calls of the two threads.
Installs ==
  {tj \in Threads \X (1 .. 1) :
     /\ stack[tj[1]] # <<>>
     /\ tj[2] <= Len(stack[tj[1]][1].log)
     /\ stack[tj[1]][1].log[tj[2]].cb = "sigaction"}

\* C38: when the two threads have called AddSpecialSignalHandlerFn for the
\* same unclaimed signal with different handlers and both calls have
\* returned, in whatever interleaving, both handlers are in the
\* special-handler list, the dispatcher was installed with the kernel exactly
\* once, and the stored user action is the disposition that preceded the
\* claim.
C38_ConcurrentAddsBothRegistered ==
  (/\ Returned1("T1", "add", AddSig) /\ Returned1("T2", "add", AddSig)
   /\ stack["T1"][1].arg.sc_sigaction # stack["T2"][1].arg.sc_sigaction)
  => /\ {stack["T1"][1].arg, stack["T2"][1].arg}
          = {chains[AddSig].special_handlers[i] : i \in 1 .. NumSlots}
     /\ Cardinality(Installs) = 1
     /\ kernel[AddSig].handler = HandlerFn
     /\ Claimed(AddSig)
     /\ chains[AddSig].action = ZeroAction

\* No call of RemoveSpecialSignalHandlerFn is under way.
NoRemoveInProgress ==
  \A t \in Threads :
    stack[t] # <<>> /\ stack[t][1].kind = "remove" => stack[t][1].pc = "returned"

\* C39: while RemoveSpecialSignalHandlerFn runs on one thread, a dispatcher
\* invocation for the same signal on another thread invokes no
\* special-handler function twice, and once the removal has returned and
\* the invocation has left its special-handler phase with every handler
\* returning false, it has invoked every handler that is still registered.
C39_RemoveDuringDispatch ==
  \A tk \in Frames :
    (IsFrame(tk) /\ Frame(tk).kind = "signal" /\ Frame(tk).signo = RemoveSig)
    => /\ \A i, j \in DOMAIN Frame(tk).log :
            (i < j /\ Frame(tk).log[i].cb = "sh" /\ Frame(tk).log[j].cb = "sh")
            => Frame(tk).log[i].fn # Frame(tk).log[j].fn
       /\ (NoRemoveInProgress /\ Frame(tk).pc \in {"hook", "in_hook", "ua", "in_ua"})
          => \A fn \in Fns(RegisteredHandlers(RemoveSig)) :
               \E i \in DOMAIN Frame(tk).log :
                 Frame(tk).log[i].cb = "sh" /\ Frame(tk).log[i].fn = fn

====
